---- MODULE Spec2Model ----
(***************************************************************************)
(* A model of the App Development Manager (KTagupa/app-making-app):        *)
(*   - the hierarchy store (storage.js) and its canvas handlers            *)
(*     (canvas.js): phases, features, subtasks of the current project;     *)
(*   - the merge engine (ai.js mergeAIResponse) and the whole-project      *)
(*     regeneration (main module, handleAIGenerate / applyAIResponse);     *)
(*   - the canvas transform (canvas.js): zoom, pan, pinch;                 *)
(*   - export / import of a project (storage.js), through JSON text;       *)
(*   - the dependency lines of the canvas (canvas.js showDependencies);     *)
(*   - the current project, the debounced autosave and the handlers that   *)
(*     wait (storage.js, main module openProject / handleAIGenerate);      *)
(*   - one call of callAI against its 60-second timer (ai.js);             *)
(*   - the sync operations and their token (gist.js).                      *)
(*                                                                         *)
(* Names are sequences of one-character strings, so that toLowerCase,      *)
(* split(':') and includes are computed, not assumed.  Ids are the values  *)
(* of a counter (generateId is taken as a source of fresh values).         *)
(* The numbers of the canvas are rationals with NaN and the infinities.    *)
(* Fields that only the view reads (a feature's collapsed and position,    *)
(* project_id) are left out of the records; the collapsed flags of the     *)
(* phases are kept beside the tree, as the set collapsedPhases.            *)
(***************************************************************************)
EXTENDS Integers, Sequences, FiniteSets, TLC

VARIABLES
    phases,       \* currentProject.phases (storage.js:309, 61)
    nextId,       \* the number of ids generateId has handed out
    lastOp,       \* the handler that ran last (history)
    mergeIn,      \* the arguments of a call of mergeAIResponse
    mergeOut,     \* what the call did
    scale,        \* canvas.js:16
    translateX,   \* canvas.js:17
    translateY,   \* canvas.js:18
    touchStartDistance,   \* canvas.js:177
    touchStartScale,      \* canvas.js:178
    lastTouchX,   \* canvas.js:179
    lastTouchY,   \* canvas.js:180
    canvasOp,     \* the canvas handler that ran last and its anchor (history)
    canvasSteps,  \* the number of canvas events handled
    exportIn,     \* the project given to exportProject
    exportText,   \* the JSON text exportProject returned
    importOut,    \* the project importProject resolved to
    collapsedPhases,             \* the ids of the phases with collapsed = true
    activeDependencyFeatureId,   \* canvas.js:904 (0 for null)
    dependencyLines, \* the lines of svgOverlay (canvas.js:15), as appended
    storeCall,    \* the last direct call of a find or delete of storage.js
    db,               \* the 'projects' object store: the state stored of each project
    objects,          \* the project objects getProject has resolved to
    currentProject,   \* storage.js:309, an index of objects (0 for null)
    timers,           \* the pending timers of setTimeout (canvas.js:1114)
    timeout,          \* the variable timeout of debounce (canvas.js:1106)
    timerCount,       \* the number of timers setTimeout has created
    clock,            \* the time, in seconds
    stamp,            \* the number of mutations so far
    latest,           \* the last mutation of each project (history)
    aiTask,           \* handleAIGenerate, at its await of callAI
    openTask,         \* openProject, at its await of getProject
    sessionOp,        \* the last application, render or write (history)
    calls,            \* autoSave invocations since the last write (history)
    lastCall,         \* the time of the last autoSave invocation (history)
    writes,           \* the number of writes autoSave has issued (history)
    callPc,       \* where callAI is (ai.js:216-296)
    callClock,    \* the time, in seconds
    timeoutId,    \* the timer of ai.js:253: the time it is due, 0 when not armed
    fetches,      \* the number of fetch requests callAI has issued
    aborted,      \* controller.signal.aborted
    callOutcome,  \* what callAI returned or threw
    callStart,    \* the time the request was issued (history)
    callEnd,      \* the time callAI finished (history)
    githubToken,  \* the setting 'github_token' (gist.js:9-17), <<>> when not set
    gistCall,     \* the sync operation in progress or the last one
    gistRequests, \* the requests fetch has sent to api.github.com, in order
    \* the AI panel (main module:537-661)
    promptInput,        \* value of #ai-prompt-input, a sequence of characters
    aiModel,            \* value of #ai-model-selector
    apiKeys,            \* the models with a key in the setting api_keys
    notification,       \* what showNotification showed last
    loadingOverlay,     \* whether the loading overlay is shown
    aiRequests,         \* number of requests callAI has sent
    inFlight,           \* the handleAIGenerate invocations awaiting callAI
    regenerations,      \* times project.phases was replaced (history)
    arrivals,           \* the requests answered so far, in order (history)
    \* the asynchronous entry points of the user's gestures (main module)
    gesture,            \* the handler running or run last, and how it ended
    gestureCount,       \* handlers started so far (history)
    rejections,         \* the failed calls no catch received (history)
    \* the canvas state kept in the project (canvas.js:275-282, 1118-1128)
    canvasState,        \* project.canvas_state of the current project
    inThrottle,         \* inThrottle of the throttle around saveCanvasState
    throttleDue,        \* the time the throttle's timer is due, in ms
    viewClock,          \* the time, in ms
    lastEvent,          \* the time of the last canvas event (history)
    isPanning,          \* a mouse pan is under way (canvas.js:20)
    startX,             \* where the mouse pan started (canvas.js:21-22)
    startY,
    touching,           \* fingers are on the canvas (history)
    \* handleSyncGist and the gist fields of the project (main module:343-380)
    projectGist,        \* gist_id, gist_url, last_synced of the project, 0 null
    syncsInFlight,      \* the handleSyncGist invocations awaiting syncToGist
    remoteGists,        \* the gists GitHub has created
    syncStamp,          \* Date.now() as a count of the responses handled
    syncOp              \* what the last step of a sync did (history)

treeVars == <<phases, nextId, lastOp>>
mergeVars == <<mergeIn, mergeOut>>
canvasVars == <<scale, translateX, translateY, touchStartDistance,
                touchStartScale, lastTouchX, lastTouchY, canvasOp, canvasSteps>>
importVars == <<exportIn, exportText, importOut>>
viewVars == <<collapsedPhases, activeDependencyFeatureId, dependencyLines>>
callVars == <<storeCall>>
sessionVars == <<db, objects, currentProject, timers, timeout, timerCount,
                 clock, stamp, latest, aiTask, openTask, sessionOp, calls,
                 lastCall, writes>>
callAIVars == <<callPc, callClock, timeoutId, fetches, aborted, callOutcome,
                callStart, callEnd>>
gistVars == <<githubToken, gistCall, gistRequests>>
generateVars == <<promptInput, aiModel, apiKeys, notification,
                  loadingOverlay, aiRequests, inFlight, regenerations,
                  arrivals>>
gestureVars == <<gesture, gestureCount, rejections>>
persistVars == <<canvasState, inThrottle, throttleDue, viewClock, lastEvent,
                 isPanning, startX, startY, touching>>
syncVars == <<projectGist, syncsInFlight, remoteGists, syncStamp,
              syncOp>>
vars == <<treeVars, mergeVars, canvasVars, importVars, viewVars, callVars,
          sessionVars, callAIVars, gistVars,
          generateVars,
          gestureVars,
          persistVars,
          syncVars>>

(***************************************************************************)
(* Bounds of the model.                                                    *)
(***************************************************************************)
MaxId == 4          \* ids generateId hands out, handlers without the AI
MaxPhases == 2      \* phases the user adds
MaxFeatures == 2    \* features the user adds to one phase
MaxSubtasks == 2    \* subtasks the user adds to one feature

(***************************************************************************)
(* Strings.                                                                *)
(***************************************************************************)
(* JavaScript numbers, as far as the canvas needs them: the rationals n/d   *)
(* in lowest terms (d > 0), Infinity and -Infinity (d = 0, n = 1 or -1)    *)
(* and NaN (d = 0, n = 0).  Finite arithmetic is exact here; a double       *)
(* rounds.                                                                 *)
(***************************************************************************)
RECURSIVE GCD(_, _)
GCD(a, b) == IF b = 0 THEN a ELSE GCD(b, a % b)

Abs(n) == IF n < 0 THEN -n ELSE n
Sign(n) == IF n < 0 THEN -1 ELSE IF n > 0 THEN 1 ELSE 0

NaN == [n |-> 0, d |-> 0]
Infinity(sign) == [n |-> sign, d |-> 0]
IsNaN(a) == a.d = 0 /\ a.n = 0
IsInfinite(a) == a.d = 0 /\ a.n # 0

\* n/d, d # 0, in lowest terms
Ratio(n, d) ==
    LET g == GCD(Abs(n), Abs(d))
    IN  [n |-> Sign(d) * (n \div g), d |-> Abs(d) \div g]
Int2Num(i) == [n |-> i, d |-> 1]

NumAdd(a, b) ==
    IF IsNaN(a) \/ IsNaN(b) THEN NaN
    ELSE IF IsInfinite(a) /\ IsInfinite(b)
    THEN IF a.n = b.n THEN a ELSE NaN
    ELSE IF IsInfinite(a) THEN a
    ELSE IF IsInfinite(b) THEN b
    ELSE Ratio(a.n * b.d + b.n * a.d, a.d * b.d)

NumNeg(a) == [n |-> -a.n, d |-> a.d]
NumSub(a, b) == NumAdd(a, NumNeg(b))

NumMul(a, b) ==
    IF IsNaN(a) \/ IsNaN(b) THEN NaN
    ELSE IF IsInfinite(a) \/ IsInfinite(b)
    THEN IF a.n = 0 \/ b.n = 0 THEN NaN ELSE Infinity(Sign(a.n) * Sign(b.n))
    ELSE Ratio(a.n * b.n, a.d * b.d)

\* a / b; the zeros of the model are +0
NumDiv(a, b) ==
    IF IsNaN(a) \/ IsNaN(b) THEN NaN
    ELSE IF IsInfinite(a)
    THEN IF IsInfinite(b) THEN NaN
         ELSE Infinity(a.n * (IF b.n < 0 THEN -1 ELSE 1))
    ELSE IF IsInfinite(b) THEN Int2Num(0)
    ELSE IF b.n = 0
    THEN IF a.n = 0 THEN NaN ELSE Infinity(Sign(a.n))
    ELSE Ratio(a.n * b.d, a.d * b.n)

\* a < b, a <= b and a === b: false when either is NaN
NumLess(a, b) ==
    /\ ~IsNaN(a)
    /\ ~IsNaN(b)
    /\ IF IsInfinite(a) THEN a.n = -1 /\ b # a
       ELSE IF IsInfinite(b) THEN b.n = 1
       ELSE a.n * b.d < b.n * a.d
NumEq(a, b) == ~IsNaN(a) /\ ~IsNaN(b) /\ a = b
NumLeq(a, b) == NumLess(a, b) \/ NumEq(a, b)

\* Math.max and Math.min of two: NaN if either is
MathMax(a, b) ==
    IF IsNaN(a) \/ IsNaN(b) THEN NaN ELSE IF NumLess(a, b) THEN b ELSE a
MathMin(a, b) ==
    IF IsNaN(a) \/ IsNaN(b) THEN NaN ELSE IF NumLess(b, a) THEN b ELSE a

\* Math.sqrt of an integer that is a square
MathSqrt(n) == Int2Num(CHOOSE r \in 0..n : r * r = n)

(***************************************************************************)
ToLowerChar(c) ==
    CASE c = "A" -> "a"
      [] c = "B" -> "b"
      [] c = "L" -> "l"
      [] OTHER -> c

toLowerCase(s) == [i \in 1..Len(s) |-> ToLowerChar(s[i])]

\* s.split(':')[0]: the part of s before its first ':' (all of s without one)
splitColonFirst(s) ==
    IF \E i \in 1..Len(s) : s[i] = ":"
    THEN LET i == CHOOSE i \in 1..Len(s) :
                      s[i] = ":" /\ \A j \in 1..(i - 1) : s[j] # ":"
         IN  SubSeq(s, 1, i - 1)
    ELSE s

\* s.includes(t): t occurs in s as a contiguous substring
includes(s, t) ==
    \E i \in 0..(Len(s) - Len(t)) : SubSeq(s, i + 1, i + Len(t)) = t

(***************************************************************************)
(* Sequence helpers (Array.prototype).                                     *)
(***************************************************************************)
\* findIndex: the first index whose element satisfies Test, 0 for -1
FindIndex(s, Test(_)) ==
    IF \E i \in 1..Len(s) : Test(s[i])
    THEN CHOOSE i \in 1..Len(s) : Test(s[i]) /\ \A j \in 1..(i - 1) : ~Test(s[j])
    ELSE 0

\* splice(index, 1)
RemoveAt(s, i) == SubSeq(s, 1, i - 1) \o SubSeq(s, i + 1, Len(s))

Range(s) == { s[i] : i \in 1..Len(s) }

RECURSIVE SumSeq(_)
SumSeq(s) == IF s = <<>> THEN 0 ELSE Head(s) + SumSeq(Tail(s))

RECURSIVE Flatten(_)
Flatten(ss) == IF ss = <<>> THEN <<>> ELSE Head(ss) \o Flatten(Tail(ss))

(***************************************************************************)
(* The hierarchy store (storage.js).  Every operation takes the project's  *)
(* phases and returns them as the operation leaves them.                   *)
(***************************************************************************)
addPhase(ps, id, name, description) ==
    Append(ps, [id |-> id,
                name |-> name,
                description |-> description,
                order |-> Len(ps),
                features |-> <<>>,
                position |-> [x |-> Len(ps) * 320 + 40, y |-> 100]])

newFeature(id, phaseId, name, description) ==
    [id |-> id,
     phase_id |-> phaseId,
     name |-> name,
     description |-> description,
     status |-> "not_started",
     ai_generated |-> FALSE,
     marked_as |-> "none",
     subtasks |-> <<>>,
     dependencies |-> <<>>]

\* addFeature(phase, name): phase is the phase at index pi
addFeature(ps, pi, id, name, description) ==
    [ps EXCEPT ![pi].features =
        Append(@, newFeature(id, ps[pi].id, name, description))]

newSubtask(id, featureId, description) ==
    [id |-> id,
     feature_id |-> featureId,
     description |-> description,
     completed |-> FALSE,
     ai_generated |-> FALSE]

\* addSubtask(feature, description): feature is feature fi of phase pi
addSubtask(ps, pi, fi, id, description) ==
    [ps EXCEPT ![pi].features[fi].subtasks =
        Append(@, newSubtask(id, ps[pi].features[fi].id, description))]

\* findPhase: the index of the first phase with this id, 0 for undefined
\* a wrong search: the first phase when none has the id
firstPhaseWhenAbsent(ps, phaseId) ==
    LET Is(p) == p.id = phaseId
    IN  IF FindIndex(ps, Is) # 0 THEN FindIndex(ps, Is)
        ELSE IF ps = <<>> THEN 0 ELSE 1

findPhase(ps, phaseId) ==
    LET Is(p) == p.id = phaseId IN FindIndex(ps, Is)

\* findFeature: <<phase index, feature index>>, <<0, 0>> for null
findFeature(ps, featureId) ==
    LET Is(f) == f.id = featureId
        Has(p) == FindIndex(p.features, Is) # 0
        pi == FindIndex(ps, Has)
    IN  IF pi = 0 THEN <<0, 0>> ELSE <<pi, FindIndex(ps[pi].features, Is)>>

\* findSubtask: <<phase, feature, subtask>> indices, <<0, 0, 0>> for null
findSubtask(ps, subtaskId) ==
    LET Is(s) == s.id = subtaskId
        HasF(f) == FindIndex(f.subtasks, Is) # 0
        HasP(p) == FindIndex(p.features, HasF) # 0
        pi == FindIndex(ps, HasP)
    IN  IF pi = 0 THEN <<0, 0, 0>>
        ELSE LET fi == FindIndex(ps[pi].features, HasF)
             IN  <<pi, fi, FindIndex(ps[pi].features[fi].subtasks, Is)>>

\* the mutant of Renumber: the order values are left as they were
RenumberSkipped(ps) == ps

\* project.phases.forEach((p, i) => p.order = i)
Renumber(ps) == [i \in 1..Len(ps) |-> [ps[i] EXCEPT !.order = i - 1]]

deletePhase(ps, phaseId) ==
    LET index == findPhase(ps, phaseId)
    IN  IF index # 0
        THEN [ok |-> TRUE, phases |-> Renumber(RemoveAt(ps, index))]
        ELSE [ok |-> FALSE, phases |-> ps]

deleteFeature(ps, featureId) ==
    LET at == findFeature(ps, featureId)
    IN  IF at[1] # 0
        THEN [ok |-> TRUE,
              phases |-> [ps EXCEPT ![at[1]].features = RemoveAt(@, at[2])]]
        ELSE [ok |-> FALSE, phases |-> ps]

deleteSubtaskFromProject(ps, subtaskId) ==
    LET at == findSubtask(ps, subtaskId)
    IN  IF at[1] # 0
        THEN [ok |-> TRUE,
              phases |-> [ps EXCEPT ![at[1]].features[at[2]].subtasks =
                                        RemoveAt(@, at[3])]]
        ELSE [ok |-> FALSE, phases |-> ps]

(***************************************************************************)
(* The canvas handlers that change the tree (canvas.js).                   *)
(***************************************************************************)
AllCompleted(subtasks) == \A i \in 1..Len(subtasks) : subtasks[i].completed
AnyCompleted(subtasks) == \E i \in 1..Len(subtasks) : subtasks[i].completed

\* a wrong recomputation: 'complete' as soon as one subtask is completed
StatusAnyIsComplete(feature) ==
    IF AnyCompleted(feature.subtasks) THEN "complete" ELSE feature.status

\* toggleSubtaskStatus, lines 670-678: the status after the flip
StatusAfterToggle(feature) ==
    IF AllCompleted(feature.subtasks) /\ Len(feature.subtasks) > 0
    THEN "complete"
    ELSE IF AnyCompleted(feature.subtasks) THEN "in_progress"
    ELSE feature.status

toggleSubtaskStatus(ps, subtaskId) ==
    LET at == findSubtask(ps, subtaskId)
    IN  IF at[1] = 0 THEN ps
        ELSE LET f == ps[at[1]].features[at[2]]
                 flipped == [f EXCEPT !.subtasks[at[3]].completed = ~@]
             IN  [ps EXCEPT ![at[1]].features[at[2]] =
                     [flipped EXCEPT !.status = StatusAfterToggle(flipped)]]

toggleFeatureStatus(ps, featureId) ==
    LET at == findFeature(ps, featureId)
    IN  IF at[1] = 0 THEN ps
        ELSE [ps EXCEPT ![at[1]].features[at[2]].status =
                 IF @ = "complete" THEN "not_started" ELSE "complete"]

\* handleFeatureAction, cases 'keep' and 'discard'
handleFeatureAction(ps, action, featureId) ==
    LET at == findFeature(ps, featureId)
    IN  IF at[1] = 0 THEN ps
        ELSE [ps EXCEPT ![at[1]].features[at[2]].marked_as =
                 IF @ = action THEN "none" ELSE action]

\* a move that leaves the feature's phase_id as it was
dropKeepingPhaseId(ps, draggedId, targetPhaseId) ==
    LET at == findFeature(ps, draggedId)
        ti == findPhase(ps, targetPhaseId)
    IN  IF at[1] = 0 \/ ti = 0 THEN ps
        ELSE IF ps[at[1]].id = ps[ti].id THEN ps
        ELSE [[ps EXCEPT ![at[1]].features = RemoveAt(@, at[2])]
                 EXCEPT ![ti].features = Append(@, ps[at[1]].features[at[2]])]

\* handleDrop: the dragged feature dropped on the zone of phase targetPhaseId
handleDrop(ps, draggedId, targetPhaseId) ==
    LET at == findFeature(ps, draggedId)
        ti == findPhase(ps, targetPhaseId)
    IN  IF at[1] = 0 \/ ti = 0 THEN ps
        ELSE IF ps[at[1]].id = ps[ti].id THEN ps
        ELSE LET feature == ps[at[1]].features[at[2]]
                 Is(f) == f.id = draggedId
                 index == FindIndex(ps[at[1]].features, Is)
                 removed == [ps EXCEPT ![at[1]].features = RemoveAt(@, index)]
             IN  [removed EXCEPT ![ti].features =
                     Append(@, [feature EXCEPT !.phase_id = ps[ti].id])]

(***************************************************************************)
(* The merge engine (ai.js).  An object of the merge is a feature of the   *)
(* AI response or a keep item pushed into it; it carries the fields of a   *)
(* tree feature (0 and "undefined" where an AI feature has none), the AI   *)
(* feature's suggested_subtasks, and alias: the index of the keep item it  *)
(* IS (the same JavaScript object), 0 for an object of the response.       *)
(* A phase of a response may lack its features list (hasFeatures).         *)
(***************************************************************************)
aiFeature(name, description, suggested) ==
    [id |-> 0,
     phase_id |-> 0,
     name |-> name,
     description |-> description,
     status |-> "undefined",
     ai_generated |-> FALSE,
     marked_as |-> "undefined",
     subtasks |-> <<>>,
     dependencies |-> <<>>,
     suggested_subtasks |-> suggested,
     alias |-> 0]

aiPhase(name, description, features) ==
    [name |-> name, description |-> description,
     hasFeatures |-> TRUE, features |-> features]

\* keepItem i, pushed as it is: newPhases[0].features.push(keepItem)
asMergeObject(k, i) ==
    [id |-> k.id,
     phase_id |-> k.phase_id,
     name |-> k.name,
     description |-> k.description,
     status |-> k.status,
     ai_generated |-> k.ai_generated,
     marked_as |-> k.marked_as,
     subtasks |-> k.subtasks,
     dependencies |-> k.dependencies,
     suggested_subtasks |-> <<>>,
     alias |-> i]

\* Object.assign(target, keepItem): every field of keepItem overwrites
objectAssign(target, k) ==
    [target EXCEPT !.id = k.id,
                   !.phase_id = k.phase_id,
                   !.name = k.name,
                   !.description = k.description,
                   !.status = k.status,
                   !.ai_generated = k.ai_generated,
                   !.marked_as = k.marked_as,
                   !.subtasks = k.subtasks,
                   !.dependencies = k.dependencies]

SameName(a, b) == toLowerCase(a.name) = toLowerCase(b.name)

\* a wrong round: the keep item is pushed without a look at the response
pushUnguarded(st, i) ==
    IF Len(st.phases) = 0 THEN [st EXCEPT !.raised = TRUE]
    ELSE [st EXCEPT !.phases[1].features =
                        Append(@, asMergeObject(st.keepItems[i], i))]

\* one round of the loop of lines 394-413, for keepItems[i]
mergeKeepItem(st, i) ==
    LET k == st.keepItems[i]
        Matches(f) == SameName(f, k)
        Stops(p) == ~p.hasFeatures \/ FindIndex(p.features, Matches) # 0
        pi == FindIndex(st.phases, Stops)
    IN  IF pi # 0 /\ ~st.phases[pi].hasFeatures
        THEN [st EXCEPT !.raised = TRUE]
        ELSE IF pi # 0
        THEN LET fi == FindIndex(st.phases[pi].features, Matches)
                 target == st.phases[pi].features[fi]
             IN  [st EXCEPT
                     !.phases[pi].features[fi] = objectAssign(target, k),
                     !.keepItems = IF target.alias # 0
                                   THEN [@ EXCEPT ![target.alias] = k]
                                   ELSE @]
        ELSE IF Len(st.phases) > 0
        THEN [st EXCEPT !.phases[1].features = Append(@, asMergeObject(k, i))]
        ELSE st

RECURSIVE mergeKeepItems(_, _)
mergeKeepItems(st, i) ==
    IF i > Len(st.keepItems) \/ st.raised THEN st
    ELSE mergeKeepItems(mergeKeepItem(st, i), i + 1)

\* a wrong filter: the names are compared as they are written
discardFilterCaseSensitive(features, discardItems) ==
    LET Kept(f) == ~\E d \in 1..Len(discardItems) : discardItems[d].name = f.name
    IN  SelectSeq(features, Kept)

\* lines 419-423: the features of one phase without the discarded names
discardFilter(features, discardItems) ==
    LET Kept(f) == ~\E d \in 1..Len(discardItems) : SameName(discardItems[d], f)
    IN  SelectSeq(features, Kept)

mergeDiscard(st, discardItems) ==
    IF Len(discardItems) = 0 THEN st
    ELSE IF \E p \in 1..Len(st.phases) : ~st.phases[p].hasFeatures
    THEN [st EXCEPT !.raised = TRUE]
    ELSE [st EXCEPT !.phases =
             [p \in 1..Len(st.phases) |->
                 [st.phases[p] EXCEPT
                     !.features = discardFilter(@, discardItems)]]]

\* mergeAIResponse: what it returns (phases), whether it raised instead, and
\* the keep items as it leaves them (they are objects of the caller)
mergeAIResponse(aiResponse, constraints) ==
    LET st0 == [phases |-> aiResponse.phases,
                keepItems |-> constraints.keepItems,
                raised |-> FALSE]
    IN  IF Len(constraints.keepItems) = 0 /\ Len(constraints.discardItems) = 0
        THEN st0
        ELSE LET st1 == mergeKeepItems(st0, 1)
             IN  IF st1.raised THEN st1
                 ELSE mergeDiscard(st1, constraints.discardItems)

(***************************************************************************)
(* Whole-project regeneration (main module).                               *)
(***************************************************************************)
\* the <<phase index, feature index>> of every feature, in tree order
featurePaths(ps) ==
    Flatten([pi \in 1..Len(ps) |->
                [fi \in 1..Len(ps[pi].features) |-> <<pi, fi>>]])

markedPaths(ps, mark) ==
    LET Marked(at) == ps[at[1]].features[at[2]].marked_as = mark
    IN  SelectSeq(featurePaths(ps), Marked)

\* buildAIContext, lines 462-471: the constraints are the marked features
buildAIContext(ps) ==
    LET keep == markedPaths(ps, "keep")
        discard == markedPaths(ps, "discard")
    IN  [keepItems |-> [i \in 1..Len(keep) |->
                           ps[keep[i][1]].features[keep[i][2]]],
         discardItems |-> [i \in 1..Len(discard) |->
                              ps[discard[i][1]].features[discard[i][2]]]]

\* the keep items are the tree's own objects: what Object.assign did to
\* them in the merge shows in the tree
withKeepItems(ps, keepItems) ==
    LET keep == markedPaths(ps, "keep")
    IN  [pi \in 1..Len(ps) |->
            [ps[pi] EXCEPT !.features =
                [fi \in 1..Len(ps[pi].features) |->
                    IF \E i \in 1..Len(keep) : keep[i] = <<pi, fi>>
                    THEN keepItems[CHOOSE i \in 1..Len(keep) : keep[i] = <<pi, fi>>]
                    ELSE ps[pi].features[fi]]]]

featuresOf(phaseData) ==
    IF phaseData.hasFeatures THEN phaseData.features ELSE <<>>

\* the number of generateId calls applyAIResponse makes for its argument
idsOfFeature(featureData) == 1 + Len(featureData.suggested_subtasks)
idsOfPhase(phaseData) ==
    1 + SumSeq([j \in 1..Len(featuresOf(phaseData)) |->
                   idsOfFeature(featuresOf(phaseData)[j])])
idsOfPhases(newPhases) ==
    SumSeq([i \in 1..Len(newPhases) |-> idsOfPhase(newPhases[i])])

\* lines 691-709 and 713-716: a feature built from the response
builtFeature(featureData, id, phaseId) ==
    [id |-> id,
     phase_id |-> phaseId,
     name |-> featureData.name,
     description |-> featureData.description,
     status |-> "not_started",
     ai_generated |-> TRUE,
     marked_as |-> "none",
     subtasks |-> [k \in 1..Len(featureData.suggested_subtasks) |->
                     [id |-> id + k,
                      feature_id |-> id,
                      description |-> featureData.suggested_subtasks[k],
                      completed |-> FALSE,
                      ai_generated |-> TRUE]],
     dependencies |-> <<>>]

\* lines 682-719: phase number index (from 0), its id the next fresh one
builtPhase(phaseData, index, id) ==
    LET fs == featuresOf(phaseData)
        fid(j) == id + 1 + SumSeq([m \in 1..(j - 1) |-> idsOfFeature(fs[m])])
    IN  [id |-> id,
         name |-> phaseData.name,
         description |-> phaseData.description,
         order |-> index,
         features |-> [j \in 1..Len(fs) |-> builtFeature(fs[j], fid(j), id)],
         position |-> [x |-> index * 320 + 40, y |-> 100]]

\* lines 669-679: the features marked keep, each with its phase's name
preservedFeatures(ps) ==
    LET keep == markedPaths(ps, "keep")
    IN  [i \in 1..Len(keep) |->
            [feature |-> ps[keep[i][1]].features[keep[i][2]],
             originalPhase |-> ps[keep[i][1]].name]]

\* a name the response did not give: phaseData.name is undefined (names
\* are sequences of one-character strings, so this is none of them)
undefined == <<"undefined">>

\* lines 724-726: the callback of find raises a TypeError, at
\* p.name.toLowerCase() for a phase without a name that the search reaches,
\* or at feature.originalPhase.toLowerCase()
targetPhaseRaises(ps, originalPhase) ==
    LET Match(p) == includes(toLowerCase(p.name),
                             splitColonFirst(toLowerCase(originalPhase)))
    IN  /\ Len(ps) > 0
        /\ \/ ps[1].name = undefined
           \/ originalPhase = undefined
           \/ \E i \in 2..Len(ps) :
                  /\ ps[i].name = undefined
                  /\ \A j \in 1..(i - 1) :
                         ps[j].name # undefined /\ ~Match(ps[j])

\* lines 724-726: the index of the phase a preserved feature goes to, 0 if none
targetPhase(ps, originalPhase) ==
    LET Match(p) == includes(toLowerCase(p.name),
                             splitColonFirst(toLowerCase(originalPhase)))
        found == FindIndex(ps, Match)
    IN  IF found # 0 THEN found ELSE IF Len(ps) > 0 THEN 1 ELSE 0

\* lines 722-735: the tree when the loop ends, or when it raises
RECURSIVE reinsert(_, _)
reinsert(ps, preserved) ==
    IF preserved = <<>> THEN [raised |-> FALSE, phases |-> ps]
    ELSE LET item == Head(preserved)
             ti == targetPhase(ps, item.originalPhase)
         IN  IF targetPhaseRaises(ps, item.originalPhase)
             THEN [raised |-> TRUE, phases |-> ps]
             ELSE IF ti = 0 THEN reinsert(ps, Tail(preserved))
             ELSE reinsert(
                     [ps EXCEPT ![ti].features =
                         <<[item.feature EXCEPT !.ai_generated = FALSE,
                                                !.phase_id = ps[ti].id]>> \o @],
                     Tail(preserved))

\* a regeneration that leaves project.phases as it was
keepsOldPhases(ps, newPhases, base) == [raised |-> FALSE, phases |-> ps]

\* applyAIResponse(project, newPhases), generateId having handed out base
\* ids: project.phases when it returns or raises, and which of the two
applyAIResponse(ps, newPhases, base) ==
    LET pid(i) == base + 1 + SumSeq([m \in 1..(i - 1) |-> idsOfPhase(newPhases[m])])
        built == [i \in 1..Len(newPhases) |-> builtPhase(newPhases[i], i - 1, pid(i))]
    IN  reinsert(built, preservedFeatures(ps))

(***************************************************************************)
(* The handlers, on the current project.  A handler that finds nothing for *)
(* the id it is given changes nothing (a stuttering step).                 *)
(***************************************************************************)
phaseIds(ps) == { ps[i].id : i \in 1..Len(ps) }
featureIds(ps) ==
    { ps[at[1]].features[at[2]].id : at \in Range(featurePaths(ps)) }
subtaskIds(ps) ==
    UNION { { ps[at[1]].features[at[2]].subtasks[k].id :
                k \in 1..Len(ps[at[1]].features[at[2]].subtasks) } :
            at \in Range(featurePaths(ps)) }

\* addNewPhase (canvas.js:797-808)
AddNewPhase(name, limit) ==
    /\ Len(phases) < MaxPhases
    /\ nextId < limit
    /\ phases' = addPhase(phases, nextId + 1, name, "")
    /\ nextId' = nextId + 1
    /\ lastOp' = "addPhase"

\* the phase menu's 'delete' (canvas.js:865-875)
PhaseMenuDelete(phaseId) ==
    /\ deletePhase(phases, phaseId).ok
    /\ phases' = deletePhase(phases, phaseId).phases
    /\ lastOp' = "deletePhase"
    /\ UNCHANGED nextId

\* addNewFeature (canvas.js:811-825)
AddNewFeature(phaseId, name, limit) ==
    LET pi == findPhase(phases, phaseId)
    IN  /\ nextId < limit
        /\ pi # 0
        /\ Len(phases[pi].features) < MaxFeatures
        /\ phases' = addFeature(phases, pi, nextId + 1, name, "")
        /\ nextId' = nextId + 1
        /\ lastOp' = "addFeature"

\* deleteFeatureWithConfirm (canvas.js:774-785)
DeleteFeatureWithConfirm(featureId) ==
    /\ deleteFeature(phases, featureId).ok
    /\ phases' = deleteFeature(phases, featureId).phases
    /\ lastOp' = "deleteFeature"
    /\ UNCHANGED nextId

\* addNewSubtask (canvas.js:828-841)
AddNewSubtask(featureId, description, limit) ==
    LET at == findFeature(phases, featureId)
    IN  /\ nextId < limit
        /\ at[1] # 0
        /\ Len(phases[at[1]].features[at[2]].subtasks) < MaxSubtasks
        /\ phases' = addSubtask(phases, at[1], at[2], nextId + 1, description)
        /\ nextId' = nextId + 1
        /\ lastOp' = "addSubtask"

\* deleteSubtask (canvas.js:787-794)
DeleteSubtask(subtaskId) ==
    /\ deleteSubtaskFromProject(phases, subtaskId).ok
    /\ phases' = deleteSubtaskFromProject(phases, subtaskId).phases
    /\ lastOp' = "deleteSubtask"
    /\ UNCHANGED nextId

\* the subtask checkbox (canvas.js:577-582, 660-686)
ToggleSubtaskStatus(subtaskId) ==
    /\ findSubtask(phases, subtaskId)[1] # 0
    /\ phases' = toggleSubtaskStatus(phases, subtaskId)
    /\ lastOp' = "toggleSubtask"
    /\ UNCHANGED nextId

\* the feature checkbox (canvas.js:647-658)
ToggleFeatureStatus(featureId) ==
    /\ findFeature(phases, featureId)[1] # 0
    /\ phases' = toggleFeatureStatus(phases, featureId)
    /\ lastOp' = "toggleFeature"
    /\ UNCHANGED nextId

\* the keep and discard buttons (canvas.js:748-772)
HandleFeatureAction(action, featureId) ==
    /\ findFeature(phases, featureId)[1] # 0
    /\ phases' = handleFeatureAction(phases, action, featureId)
    /\ lastOp' = action
    /\ UNCHANGED nextId

\* a feature card dropped on another phase (canvas.js:1027-1067)
HandleDrop(draggedId, targetPhaseId) ==
    /\ handleDrop(phases, draggedId, targetPhaseId) # phases
    /\ phases' = handleDrop(phases, draggedId, targetPhaseId)
    /\ lastOp' = "drop"
    /\ UNCHANGED nextId

\* handleAIGenerate (main module:537-661), from the context it builds to the
\* response it applies; the response arrives before another handler runs
HandleAIGenerate(result, limit) ==
    LET constraints == buildAIContext(phases)
        merged == mergeAIResponse(result.data, constraints)
        afterMerge == withKeepItems(phases, merged.keepItems)
    IN  IF ~result.success \/ Len(result.data.phases) = 0
        THEN /\ lastOp' = "aiRejected"
             /\ UNCHANGED <<phases, nextId>>
        ELSE IF merged.raised
        THEN /\ phases' = afterMerge
             /\ lastOp' = "aiRaised"
             /\ UNCHANGED nextId
        ELSE LET applied == applyAIResponse(afterMerge, merged.phases, nextId)
             IN  /\ nextId + idsOfPhases(merged.phases) <= limit
                 /\ phases' = applied.phases
                 /\ nextId' = nextId + idsOfPhases(merged.phases)
                 /\ lastOp' = IF applied.raised THEN "aiRaised"
                              ELSE "aiApplied"

(***************************************************************************)
(* Each specification runs one part of the program; the variables of the   *)
(* other parts stay as these predicates leave them.                        *)
(***************************************************************************)
TreeIdle ==
    /\ phases = <<>>
    /\ nextId = 0
    /\ lastOp = "init"

NoCall == [aiResponse |-> [phases |-> <<>>],
           constraints |-> [keepItems |-> <<>>, discardItems |-> <<>>]]
NoResult == [done |-> FALSE, raised |-> FALSE, phases |-> <<>>, keepItems |-> <<>>]

MergeIdle ==
    /\ mergeIn = NoCall
    /\ mergeOut = NoResult

\* the module-level values of canvas.js:16-18 and 177-180
CanvasIdle ==
    /\ scale = Int2Num(1)
    /\ translateX = Int2Num(0)
    /\ translateY = Int2Num(0)
    /\ touchStartDistance = Int2Num(0)
    /\ touchStartScale = Int2Num(1)
    /\ lastTouchX = Int2Num(0)
    /\ lastTouchY = Int2Num(0)
    /\ canvasOp = [op |-> "init", x |-> Int2Num(0), y |-> Int2Num(0)]
    /\ canvasSteps = 0

ImportIdle ==
    /\ exportIn = <<>>
    /\ exportText = <<>>
    /\ importOut = <<>>

\* no phase collapsed (storage.js:203), canvas.js:904, an empty overlay
ViewIdle ==
    /\ collapsedPhases = {}
    /\ activeDependencyFeatureId = 0
    /\ dependencyLines = <<>>

CallIdle ==
    storeCall = [op |-> "none", id |-> 0, result |-> <<>>]

\* after init (main module:69-107): the last project is open, nothing pending
SessionIdle ==
    /\ db = [p \in {1} |-> 0]
    /\ objects = <<[id |-> 1, rev |-> 0]>>
    /\ currentProject = 1
    /\ timers = {}
    /\ timeout = 0
    /\ timerCount = 0
    /\ clock = 0
    /\ stamp = 0
    /\ latest = [p \in {1} |-> 0]
    /\ aiTask = [pc |-> "idle", project |-> 0]
    /\ openTask = [pc |-> "idle", id |-> 0]
    /\ sessionOp = [op |-> "init", project |-> 1, current |-> 1, n |-> 0]
    /\ calls = 0
    /\ lastCall = 0
    /\ writes = 0

\* callAI has not been called
CallAIIdle ==
    /\ callPc = "idle"
    /\ callClock = 0
    /\ timeoutId = 0
    /\ fetches = 0
    /\ aborted = FALSE
    /\ callOutcome = "none"
    /\ callStart = 0
    /\ callEnd = 0

\* no token saved, no sync operation called
GistIdle ==
    /\ githubToken = <<>>
    /\ gistCall = [op |-> "none", pc |-> "idle", hadToken |-> FALSE,
                   sent |-> 0, error |-> "none"]
    /\ gistRequests = <<>>

\* the AI panel as the page loads it
GenerateIdle ==
    /\ promptInput = <<>>
    /\ aiModel = "gemini"
    /\ apiKeys = {}
    /\ notification = "none"
    /\ loadingOverlay = FALSE
    /\ aiRequests = 0
    /\ inFlight = <<>>
    /\ regenerations = 0
    /\ arrivals = <<>>

\* no gesture yet
GestureIdle ==
    /\ gesture = [handler |-> "none", pc |-> 0, outcome |-> "returned"]
    /\ gestureCount = 0
    /\ rejections = {}

\* the project just opened: setCanvasState(project.canvas_state) has run
PersistIdle ==
    /\ canvasState = [zoom_level |-> Int2Num(1), pan_x |-> Int2Num(0),
                      pan_y |-> Int2Num(0)]
    /\ inThrottle = FALSE
    /\ throttleDue = 0
    /\ viewClock = 0
    /\ lastEvent = 0
    /\ isPanning = FALSE
    /\ startX = Int2Num(0)
    /\ startY = Int2Num(0)
    /\ touching = FALSE

\* a project never synced
SyncIdle ==
    /\ projectGist = [gist_id |-> 0, gist_url |-> 0, last_synced |-> 0]
    /\ syncsInFlight = <<>>
    /\ remoteGists = 0
    /\ syncStamp = 0
    /\ syncOp = [op |-> "init", ok |-> TRUE]

(***************************************************************************)
(* Spec: the handlers of the hierarchy, from an empty project.             *)
(***************************************************************************)
Init ==
    /\ TreeIdle
    /\ MergeIdle
    /\ CanvasIdle
    /\ SyncIdle
    /\ PersistIdle
    /\ GestureIdle
    /\ GenerateIdle
    /\ GistIdle
    /\ CallAIIdle
    /\ SessionIdle
    /\ CallIdle
    /\ ViewIdle
    /\ ImportIdle

Next ==
    /\ \/ AddNewPhase(<<"b">>, MaxId)
       \/ \E id \in phaseIds(phases) : PhaseMenuDelete(id)
       \/ \E id \in phaseIds(phases) : AddNewFeature(id, <<"L">>, MaxId)
       \/ \E id \in featureIds(phases) : DeleteFeatureWithConfirm(id)
       \/ \E id \in featureIds(phases) : AddNewSubtask(id, "t", MaxId)
       \/ \E id \in subtaskIds(phases) : DeleteSubtask(id)
       \/ \E id \in subtaskIds(phases) : ToggleSubtaskStatus(id)
       \/ \E id \in featureIds(phases) : ToggleFeatureStatus(id)
       \/ \E id \in featureIds(phases), target \in phaseIds(phases) :
              HandleDrop(id, target)
    /\ UNCHANGED <<mergeVars, canvasVars, importVars, viewVars, callVars,
                   sessionVars, callAIVars, gistVars,
                   generateVars,
                   gestureVars,
                   persistVars,
                   syncVars>>

Spec == Init /\ [][Next]_vars

\* C2: a call of toggleSubtaskStatus that leaves every subtask of the
\* feature completed leaves its status 'complete', and a call that takes one
\* of two or more completed subtasks back leaves it 'in_progress'.
C2_ToggleSetsStatus ==
    [][lastOp' = "toggleSubtask" =>
        \A at \in Range(featurePaths(phases)) :
            LET f == phases[at[1]].features[at[2]]
                g == phases'[at[1]].features[at[2]]
            IN  f.subtasks # g.subtasks =>
                  /\ AllCompleted(g.subtasks) => g.status = "complete"
                  /\ (AllCompleted(f.subtasks) /\ Len(f.subtasks) >= 2) =>
                         g.status = "in_progress"]_vars

\* a toggle has just completed the last open subtask of a feature with
\* two or more
C2_Witness ==
    /\ lastOp = "toggleSubtask"
    /\ \E at \in Range(featurePaths(phases)) :
           LET f == phases[at[1]].features[at[2]]
           IN  /\ Len(f.subtasks) >= 2
               /\ AllCompleted(f.subtasks)
               /\ f.status = "complete"

(***************************************************************************)
(* SpecToggle: a project whose features have their subtasks, none          *)
(* completed, and the subtask checkboxes alone.                            *)
(***************************************************************************)
MaxToggleSubtasks == 3   \* subtasks of a feature of SpecToggle

RECURSIVE addSubtasks(_, _, _, _, _)
addSubtasks(ps, pi, fi, base, n) ==
    IF n = 0 THEN ps
    ELSE addSubtasks(addSubtask(ps, pi, fi, base + 1, "t"), pi, fi, base + 1, n - 1)

\* one phase, two features with n1 and n2 subtasks, as the handlers build it
builtProject(n1, n2) ==
    LET p == addPhase(<<>>, 1, <<"b">>, "")
        f1 == addSubtasks(addFeature(p, 1, 2, <<"L">>, ""), 1, 1, 2, n1)
    IN  addSubtasks(addFeature(f1, 1, 3 + n1, <<"l">>, ""), 1, 2, 3 + n1, n2)

InitToggle ==
    /\ \E n1 \in 1..MaxToggleSubtasks, n2 \in 0..MaxToggleSubtasks :
           /\ phases = builtProject(n1, n2)
           /\ nextId = 3 + n1 + n2
    /\ lastOp = "init"
    /\ MergeIdle
    /\ CanvasIdle
    /\ SyncIdle
    /\ PersistIdle
    /\ GestureIdle
    /\ GenerateIdle
    /\ GistIdle
    /\ CallAIIdle
    /\ SessionIdle
    /\ CallIdle
    /\ ViewIdle
    /\ ImportIdle

NextToggle ==
    /\ \E id \in subtaskIds(phases) : ToggleSubtaskStatus(id)
    /\ UNCHANGED <<mergeVars, canvasVars, importVars, viewVars, callVars,
                   sessionVars, callAIVars, gistVars,
                   generateVars,
                   gestureVars,
                   persistVars,
                   syncVars>>

SpecToggle == InitToggle /\ [][NextToggle]_vars

\* C1: whatever subtask checkboxes are toggled, a feature with subtasks is
\* 'in_progress' exactly when some but not all of them are completed and
\* 'complete' exactly when all of them are.
C1_StatusFollowsSubtasks ==
    \A at \in Range(featurePaths(phases)) :
        LET f == phases[at[1]].features[at[2]]
        IN  Len(f.subtasks) >= 1 =>
              /\ f.status = "in_progress" <=>
                    (AnyCompleted(f.subtasks) /\ ~AllCompleted(f.subtasks))
              /\ f.status = "complete" <=> AllCompleted(f.subtasks)

(***************************************************************************)
(* SpecPhases: the phase list under addPhase, deletePhase and whole-project *)
(* regeneration, from an empty project.                                    *)
(***************************************************************************)
MaxRegenId == 7     \* ids generateId hands out, handlers with the AI

\* what callAI resolves to: plans of two phases and of one, a phase without
\* its features list, an empty plan, a failure
AIResults ==
    { [success |-> TRUE,
       data |-> [phases |->
           << aiPhase(<<"b">>, "", << aiFeature(<<"l">>, "", <<"t">>) >>),
              aiPhase(<<"x", "A">>, "", <<>>) >>]],
      [success |-> TRUE,
       data |-> [phases |->
           << aiPhase(<<"x">>, "", << aiFeature(<<"b">>, "", <<>>) >>) >>]],
      [success |-> TRUE,
       data |-> [phases |->
           << [aiPhase(<<"x">>, "", <<>>) EXCEPT !.hasFeatures = FALSE] >>]],
      [success |-> TRUE,
       data |-> [phases |->
           << aiPhase(undefined, "", << aiFeature(<<"b">>, "", <<>>) >>) >>]],
      [success |-> TRUE, data |-> [phases |-> <<>>]],
      [success |-> FALSE, data |-> [phases |-> <<>>]] }

NextPhases ==
    /\ \/ \E name \in { <<"b">>, <<"A", ":", "x">> } : AddNewPhase(name, MaxRegenId)
       \/ \E id \in phaseIds(phases) : PhaseMenuDelete(id)
       \/ \E result \in AIResults : HandleAIGenerate(result, MaxRegenId)
    /\ UNCHANGED <<mergeVars, canvasVars, importVars, viewVars, callVars,
                   sessionVars, callAIVars, gistVars,
                   generateVars,
                   gestureVars,
                   persistVars,
                   syncVars>>

SpecPhases == Init /\ [][NextPhases]_vars

\* C3: in a project built from nothing by addPhase, deletePhase and
\* applyAIResponse, the phase at index i of the list has order i.
C3_OrderIsIndex ==
    \A i \in 1..Len(phases) : phases[i].order = i - 1

\* a phase that was created behind another one is now the first, after a
\* deletion
C3_Witness ==
    /\ lastOp = "deletePhase"
    /\ Len(phases) >= 1
    /\ phases[1].position.x > 40
    /\ phases[1].order = 0

(***************************************************************************)
(* SpecMerge: mergeAIResponse as a function of its arguments.              *)
(***************************************************************************)
MaxMergePhases == 2     \* phases of the response
MaxMergeFeatures == 1   \* features of one phase of the response
MaxKeep == 2            \* keep items
MaxDiscard == 1         \* discard items

SeqsUpTo(S, n) == UNION { [1..k -> S] : k \in 0..n }
Injective(s) == \A i, j \in 1..Len(s) : s[i] = s[j] => i = j

\* features of a response, and phases of them or without a features list
MergeFeatures ==
    { aiFeature(<<"l">>, "d", <<"t">>), aiFeature(<<"B">>, "", <<>>) }
MergePhases ==
    { aiPhase(<<"x">>, "", fs) : fs \in SeqsUpTo(MergeFeatures, MaxMergeFeatures) }
    \cup { [aiPhase(<<"x">>, "", <<>>) EXCEPT !.hasFeatures = FALSE] }

\* features of the project: the user's, marked, the first with a subtask done
markedFeature(id, name, mark) ==
    [newFeature(id, 1, name, "u") EXCEPT !.marked_as = mark]
KeepPool ==
    { [markedFeature(2, <<"L">>, "keep") EXCEPT
           !.status = "complete",
           !.subtasks = << [newSubtask(3, 2, "t") EXCEPT !.completed = TRUE] >>],
      markedFeature(4, <<"l">>, "keep"),
      markedFeature(5, <<"b">>, "keep") }
DiscardPool ==
    { markedFeature(6, <<"L">>, "discard"), markedFeature(7, <<"b">>, "discard") }

MergeCalls ==
    { [aiResponse |-> [phases |-> ps],
       constraints |-> [keepItems |-> ks, discardItems |-> ds]] :
         ps \in SeqsUpTo(MergePhases, MaxMergePhases),
         ks \in { s \in SeqsUpTo(KeepPool, MaxKeep) : Injective(s) },
         ds \in { s \in SeqsUpTo(DiscardPool, MaxDiscard) : Injective(s) } }

InitMerge ==
    /\ TreeIdle
    /\ mergeIn \in MergeCalls
    /\ mergeOut = NoResult
    /\ CanvasIdle
    /\ SyncIdle
    /\ PersistIdle
    /\ GestureIdle
    /\ GenerateIdle
    /\ GistIdle
    /\ CallAIIdle
    /\ SessionIdle
    /\ CallIdle
    /\ ViewIdle
    /\ ImportIdle

MergeAIResponse ==
    /\ ~mergeOut.done
    /\ mergeOut' = [done |-> TRUE] @@
                   mergeAIResponse(mergeIn.aiResponse, mergeIn.constraints)
    /\ UNCHANGED <<mergeIn, treeVars, canvasVars, importVars, viewVars,
                   callVars, sessionVars, callAIVars, gistVars,
                   generateVars,
                   gestureVars,
                   persistVars,
                   syncVars>>

SpecMerge == InitMerge /\ [][MergeAIResponse]_vars

\* the names of the features a call returned
returnedFeatures == Flatten([p \in 1..Len(mergeOut.phases) |->
                                featuresOf(mergeOut.phases[p])])

\* C4: with discard items, no feature mergeAIResponse returns has the name
\* of a discard item, whatever the case of the letters and whether or not a
\* keep item has that name too.
C4_DiscardedNamesAbsent ==
    (mergeOut.done /\ ~mergeOut.raised
        /\ Len(mergeIn.constraints.discardItems) > 0) =>
    \A f \in Range(returnedFeatures) :
        \A d \in Range(mergeIn.constraints.discardItems) : ~SameName(d, f)

\* a call returned features although a discard item, a keep item and a
\* feature of the response, written in another case, had one name
C4_Witness ==
    /\ mergeOut.done
    /\ ~mergeOut.raised
    /\ \E d \in Range(mergeIn.constraints.discardItems) :
          /\ \E k \in Range(mergeIn.constraints.keepItems) : SameName(d, k)
          /\ \E p \in Range(mergeIn.aiResponse.phases) :
                \E f \in Range(featuresOf(p)) : SameName(d, f) /\ f.name # d.name
    /\ returnedFeatures # <<>>

\* C6: for a response without phases and some keep items, mergeAIResponse
\* returns the empty list (the keep items are dropped) and does not raise.
C6_NoPhasesNoFeatures ==
    (mergeOut.done /\ Len(mergeIn.aiResponse.phases) = 0
        /\ Len(mergeIn.constraints.keepItems) > 0) =>
    (~mergeOut.raised /\ mergeOut.phases = <<>>)

\* such a call has returned
C6_Witness ==
    /\ mergeOut.done
    /\ mergeIn.aiResponse.phases = <<>>
    /\ Len(mergeIn.constraints.keepItems) = MaxKeep
    /\ mergeOut.phases = <<>>

\* the first feature of the response with the name of k, <<0, 0>> if none
firstMatch(k) ==
    LET in == mergeIn.aiResponse.phases
        Matches(at) == SameName(in[at[1]].features[at[2]], k)
        found == FindIndex(featurePaths(in), Matches)
    IN  IF found = 0 THEN <<0, 0>> ELSE featurePaths(in)[found]

HasFieldsOf(f, k) == objectAssign(f, k) = f

\* C5: for a response with phases (each with its features list) and no
\* discard items, a keep item whose name a feature of the response has is
\* found, field by field, where the first such feature was, and adds no
\* feature; the other keep items are appended to the first phase, and
\* nothing else changes.
C5_KeepItemsMerged ==
    LET in == mergeIn.aiResponse.phases
        out == mergeOut.phases
        ks == mergeIn.constraints.keepItems
        Unmatched(k) == firstMatch(k) = <<0, 0>>
        appended == SelectSeq(ks, Unmatched)
    IN  (mergeOut.done /\ Len(in) > 0
            /\ Len(mergeIn.constraints.discardItems) = 0
            /\ \A p \in 1..Len(in) : in[p].hasFeatures) =>
        /\ ~mergeOut.raised
        /\ Len(out) = Len(in)
        /\ \A p \in 1..Len(in) :
              Len(out[p].features) =
                  Len(in[p].features) + (IF p = 1 THEN Len(appended) ELSE 0)
        /\ \A k \in Range(ks) :
              ~Unmatched(k) =>
                  HasFieldsOf(out[firstMatch(k)[1]].features[firstMatch(k)[2]], k)
        /\ \A j \in 1..Len(appended) :
              HasFieldsOf(out[1].features[Len(in[1].features) + j], appended[j])
        /\ \A at \in Range(featurePaths(in)) :
              (\A k \in Range(ks) : firstMatch(k) # at) =>
                  out[at[1]].features[at[2]] = in[at[1]].features[at[2]]

\* the same holds of the calls whose keep items have different names
DistinctKeepNames ==
    \A i, j \in 1..Len(mergeIn.constraints.keepItems) :
        SameName(mergeIn.constraints.keepItems[i],
                 mergeIn.constraints.keepItems[j]) => i = j
MergedForDistinctNames == DistinctKeepNames => C5_KeepItemsMerged

(***************************************************************************)
(* SpecRegen: whole-project regeneration of a project of two phases, each  *)
(* with a feature, under the checkboxes, the keep and discard buttons and  *)
(* the AI.                                                                 *)
(***************************************************************************)
MaxRegenSubtasks == 1   \* subtasks of a feature of the project
MaxRegenTotal == 10     \* ids generateId hands out in SpecRegen

\* phases 'b' and 'A:x', features 'L' and 'l', as the handlers build them
regenProject(n1, n2) ==
    LET p == addPhase(addPhase(<<>>, 1, <<"b">>, ""), 2, <<"A", ":", "x">>, "")
        f1 == addSubtasks(addFeature(p, 1, 3, <<"L">>, ""), 1, 1, 3, n1)
    IN  addSubtasks(addFeature(f1, 2, 4 + n1, <<"l">>, ""), 2, 1, 4 + n1, n2)

InitRegen ==
    /\ \E n1 \in 0..MaxRegenSubtasks, n2 \in 0..MaxRegenSubtasks :
           /\ phases = regenProject(n1, n2)
           /\ nextId = 4 + n1 + n2
    /\ lastOp = "init"
    /\ MergeIdle
    /\ CanvasIdle
    /\ SyncIdle
    /\ PersistIdle
    /\ GestureIdle
    /\ GenerateIdle
    /\ GistIdle
    /\ CallAIIdle
    /\ SessionIdle
    /\ CallIdle
    /\ ViewIdle
    /\ ImportIdle

NextRegen ==
    /\ \/ \E id \in subtaskIds(phases) : ToggleSubtaskStatus(id)
       \/ \E id \in featureIds(phases), action \in {"keep", "discard"} :
              HandleFeatureAction(action, id)
       \/ \E result \in AIResults : HandleAIGenerate(result, MaxRegenTotal)
    /\ UNCHANGED <<mergeVars, canvasVars, importVars, viewVars, callVars,
                   sessionVars, callAIVars, gistVars,
                   generateVars,
                   gestureVars,
                   persistVars,
                   syncVars>>

SpecRegen == InitRegen /\ [][NextRegen]_vars

\* feature g of the new tree is feature f of the old one, preserved
Preserves(g, f) ==
    /\ g.id = f.id
    /\ g.subtasks = f.subtasks
    /\ g.status = f.status
    /\ g.ai_generated = FALSE

\* C7: a regeneration leaves every feature that was marked keep in the tree,
\* with its id, subtasks and status, ai_generated false, in the first new
\* phase whose lowercased name contains the lowercased name of its old phase
\* up to the first ':' (else in the first phase), with that phase's id as
\* phase_id and before all the features generated for that phase.
C7_KeptFeaturesPreserved ==
    [][lastOp' = "aiApplied" =>
        \A at \in Range(featurePaths(phases)) :
            LET f == phases[at[1]].features[at[2]]
                ti == targetPhase(phases', phases[at[1]].name)
            IN  f.marked_as = "keep" =>
                  /\ ti # 0
                  /\ \E j \in 1..Len(phases'[ti].features) :
                        /\ Preserves(phases'[ti].features[j], f)
                        /\ phases'[ti].features[j].phase_id = phases'[ti].id
                        /\ \A m \in 1..(j - 1) :
                              phases'[ti].features[m].id <= nextId]_vars

\* the same holds of the regenerations whose kept features have different
\* names
DistinctKeptNames ==
    LET ks == buildAIContext(phases).keepItems
    IN  \A i, j \in 1..Len(ks) : SameName(ks[i], ks[j]) => i = j
KeptPreservedForDistinctNames ==
    [][DistinctKeptNames => (lastOp' = "aiApplied" =>
        \A at \in Range(featurePaths(phases)) :
            LET f == phases[at[1]].features[at[2]]
                ti == targetPhase(phases', phases[at[1]].name)
            IN  f.marked_as = "keep" =>
                  /\ ti # 0
                  /\ \E j \in 1..Len(phases'[ti].features) :
                        /\ Preserves(phases'[ti].features[j], f)
                        /\ phases'[ti].features[j].phase_id = phases'[ti].id
                        /\ \A m \in 1..(j - 1) :
                              phases'[ti].features[m].id <= nextId)]_vars

(***************************************************************************)
(* The canvas transform (canvas.js).  A transform is the record of scale,  *)
(* translateX and translateY.                                              *)
(***************************************************************************)
MIN_ZOOM == Ratio(1, 4)
MAX_ZOOM == Int2Num(4)
ZOOM_STEP == Ratio(1, 10)

\* canvas.getBoundingClientRect(): where the page puts the canvas
rect == [left |-> 10, top |-> 20, width |-> 200, height |-> 100]

transform == [scale |-> scale, translateX |-> translateX, translateY |-> translateY]

clamp(newScale) == MathMin(MAX_ZOOM, MathMax(MIN_ZOOM, newScale))

\* the content-space coordinate under canvas coordinate x
contentOf(x, translate, sc) == NumDiv(NumSub(x, translate), sc)

zoomAtPoint(c, clientX, clientY, delta) ==
    LET x == NumSub(clientX, Int2Num(rect.left))
        y == NumSub(clientY, Int2Num(rect.top))
        contentX == contentOf(x, c.translateX, c.scale)
        contentY == contentOf(y, c.translateY, c.scale)
        newScale == clamp(NumAdd(c.scale, delta))
    IN  IF newScale # c.scale \/ IsNaN(newScale)
        THEN [scale |-> newScale,
              translateX |-> NumSub(x, NumMul(contentX, newScale)),
              translateY |-> NumSub(y, NumMul(contentY, newScale))]
        ELSE c

getTouchDistance(touches) ==
    LET dx == touches[1].clientX - touches[2].clientX
        dy == touches[1].clientY - touches[2].clientY
    IN  MathSqrt(dx * dx + dy * dy)

\* handleTouchMove with two touches, lines 196-216
pinchMove(c, touches, startDistance, startScale) ==
    LET distance == getTouchDistance(touches)
        scaleChange == NumDiv(distance, startDistance)
        newScale == clamp(NumMul(startScale, scaleChange))
        centerX == Ratio(touches[1].clientX + touches[2].clientX, 2)
        centerY == Ratio(touches[1].clientY + touches[2].clientY, 2)
        x == NumSub(centerX, Int2Num(rect.left))
        y == NumSub(centerY, Int2Num(rect.top))
        contentX == contentOf(x, c.translateX, c.scale)
        contentY == contentOf(y, c.translateY, c.scale)
    IN  [scale |-> newScale,
         translateX |-> NumSub(x, NumMul(contentX, newScale)),
         translateY |-> NumSub(y, NumMul(contentY, newScale))]

MaxCanvasSteps == 3     \* canvas events handled

\* a handler leaves transform c, its anchor (x, y) in canvas coordinates
CanvasStep(op, c, x, y) ==
    /\ canvasSteps < MaxCanvasSteps
    /\ canvasSteps' = canvasSteps + 1
    /\ scale' = c.scale
    /\ translateX' = c.translateX
    /\ translateY' = c.translateY
    /\ canvasOp' = [op |-> op, x |-> x, y |-> y]

ZoomAtPoint(clientX, clientY, delta) ==
    /\ CanvasStep("zoomAtPoint",
                  zoomAtPoint(transform, Int2Num(clientX), Int2Num(clientY), delta),
                  Int2Num(clientX - rect.left), Int2Num(clientY - rect.top))
    /\ UNCHANGED <<touchStartDistance, touchStartScale, lastTouchX, lastTouchY>>

\* zoomIn and zoomOut (lines 285-293): a step at the centre of the canvas
ZoomButton(step) ==
    LET centreX == NumAdd(Int2Num(rect.left), Ratio(rect.width, 2))
        centreY == NumAdd(Int2Num(rect.top), Ratio(rect.height, 2))
    IN  /\ CanvasStep("zoomAtPoint",
                      zoomAtPoint(transform, centreX, centreY, step),
                      Ratio(rect.width, 2), Ratio(rect.height, 2))
        /\ UNCHANGED <<touchStartDistance, touchStartScale, lastTouchX, lastTouchY>>

ZoomIn == ZoomButton(ZOOM_STEP)
ZoomOut == ZoomButton(NumNeg(ZOOM_STEP))

\* resetZoom (lines 295-302)
ResetZoom ==
    /\ CanvasStep("reset",
                  [scale |-> Int2Num(1), translateX |-> Int2Num(40),
                   translateY |-> Int2Num(40)],
                  Int2Num(0), Int2Num(0))
    /\ UNCHANGED <<touchStartDistance, touchStartScale, lastTouchX, lastTouchY>>

\* handleWheel (lines 84-99): a zoom with ctrl or meta, else a pan
HandleWheel(e) ==
    IF e.ctrlKey
    THEN ZoomAtPoint(e.clientX, e.clientY, NumMul(Int2Num(-e.deltaY), Ratio(1, 100)))
    ELSE /\ CanvasStep("pan",
                       [transform EXCEPT
                           !.translateX = NumSub(@, Int2Num(e.deltaX)),
                           !.translateY = NumSub(@, Int2Num(e.deltaY))],
                       Int2Num(0), Int2Num(0))
         /\ UNCHANGED <<touchStartDistance, touchStartScale, lastTouchX, lastTouchY>>

\* handleTouchStart (lines 182-193); one touch lands on the canvas itself
HandleTouchStart(touches) ==
    /\ CanvasStep("touchStart", transform, Int2Num(0), Int2Num(0))
    /\ IF Len(touches) = 2
       THEN /\ touchStartDistance' = getTouchDistance(touches)
            /\ touchStartScale' = scale
            /\ UNCHANGED <<lastTouchX, lastTouchY>>
       ELSE /\ lastTouchX' = Int2Num(touches[1].clientX)
            /\ lastTouchY' = Int2Num(touches[1].clientY)
            /\ UNCHANGED <<touchStartDistance, touchStartScale>>

\* handleTouchMove (lines 195-230); no card is being dragged
HandleTouchMove(touches) ==
    IF Len(touches) = 2
    THEN /\ CanvasStep("pinch",
                       pinchMove(transform, touches, touchStartDistance,
                                 touchStartScale),
                       NumSub(Ratio(touches[1].clientX + touches[2].clientX, 2),
                              Int2Num(rect.left)),
                       NumSub(Ratio(touches[1].clientY + touches[2].clientY, 2),
                              Int2Num(rect.top)))
         /\ UNCHANGED <<touchStartDistance, touchStartScale, lastTouchX, lastTouchY>>
    ELSE /\ CanvasStep("pan",
                       [transform EXCEPT
                           !.translateX = NumAdd(@, NumSub(Int2Num(touches[1].clientX),
                                                           lastTouchX)),
                           !.translateY = NumAdd(@, NumSub(Int2Num(touches[1].clientY),
                                                           lastTouchY))],
                       Int2Num(0), Int2Num(0))
         /\ lastTouchX' = Int2Num(touches[1].clientX)
         /\ lastTouchY' = Int2Num(touches[1].clientY)
         /\ UNCHANGED <<touchStartDistance, touchStartScale>>

(***************************************************************************)
(* SpecCanvas: the zoom buttons, the wheel and the touches.                *)
(***************************************************************************)
touch(x, y) == [clientX |-> x, clientY |-> y]
Touches ==
    { << touch(10, 20), touch(40, 60) >>,
      << touch(10, 20), touch(110, 20) >>,
      << touch(60, 40), touch(60, 40) >>,
      << touch(50, 50) >>,
      << touch(60, 40) >> }
WheelEvents ==
    { [ctrlKey |-> TRUE, clientX |-> at[1], clientY |-> at[2],
       deltaX |-> 0, deltaY |-> dy] :
         at \in { <<10, 20>>, <<110, 70>> }, dy \in { -100, 50, 1000, -1000 } }
    \cup { [ctrlKey |-> FALSE, clientX |-> 10, clientY |-> 20,
            deltaX |-> 30, deltaY |-> -20] }

InitCanvas ==
    /\ TreeIdle
    /\ MergeIdle
    /\ CanvasIdle
    /\ SyncIdle
    /\ PersistIdle
    /\ GestureIdle
    /\ GenerateIdle
    /\ GistIdle
    /\ CallAIIdle
    /\ SessionIdle
    /\ CallIdle
    /\ ViewIdle
    /\ ImportIdle

NextCanvas ==
    /\ \/ ZoomIn
       \/ ZoomOut
       \/ ResetZoom
       \/ \E e \in WheelEvents : HandleWheel(e)
       \/ \E touches \in Touches : HandleTouchStart(touches)
       \/ \E touches \in Touches : HandleTouchMove(touches)
    /\ UNCHANGED <<treeVars, mergeVars, importVars, viewVars, callVars,
                   sessionVars, callAIVars, gistVars,
                   generateVars,
                   gestureVars,
                   persistVars,
                   syncVars>>

SpecCanvas == InitCanvas /\ [][NextCanvas]_vars

\* C8: after the zoom buttons, ctrl-wheel zooms, pinch moves and resets, in
\* any order and for any pointer positions, MIN_ZOOM <= scale <= MAX_ZOOM.
C8_ScaleInRange ==
    NumLeq(MIN_ZOOM, scale) /\ NumLeq(scale, MAX_ZOOM)

\* the scale is in the range or it is NaN
ScaleInRangeOrNaN == IsNaN(scale) \/ C8_ScaleInRange

\* C9: a zoomAtPoint keeps the content-space point under the cursor, and a
\* pinch move the one under the midpoint of the two pointers:
\* (x - translateX) / scale is the same number before and after, and so for y.
C9_AnchorKept ==
    [][(canvasSteps' = canvasSteps + 1 /\ canvasOp'.op \in {"zoomAtPoint", "pinch"}) =>
        /\ NumEq(contentOf(canvasOp'.x, translateX', scale'),
                 contentOf(canvasOp'.x, translateX, scale))
        /\ NumEq(contentOf(canvasOp'.y, translateY', scale'),
                 contentOf(canvasOp'.y, translateY, scale))]_vars

\* the anchor is kept by the steps between transforms of numbers
AnchorKeptUnlessNaN ==
    [][(canvasSteps' = canvasSteps + 1 /\ canvasOp'.op \in {"zoomAtPoint", "pinch"}
            /\ ~IsNaN(scale) /\ ~IsNaN(translateX) /\ ~IsNaN(translateY)
            /\ ~IsNaN(scale')) =>
        /\ NumEq(contentOf(canvasOp'.x, translateX', scale'),
                 contentOf(canvasOp'.x, translateX, scale))
        /\ NumEq(contentOf(canvasOp'.y, translateY', scale'),
                 contentOf(canvasOp'.y, translateY, scale))]_vars

(***************************************************************************)
(* JSON text: a sequence of tokens.  JSON.stringify writes an object as    *)
(* its own properties in insertion order (the white space of its indent    *)
(* is left out), JSON.parse reads any text; a string is written with its   *)
(* quotes and backslashes escaped and read back unescaped.                 *)
(***************************************************************************)
Punct(c) == [k |-> "p", v |-> c]
Key(name) == [k |-> "key", v |-> name]          \* "name":
Literal(word) == [k |-> "l", v |-> word]        \* true, false, null

RECURSIVE escape(_)
escape(chars) ==
    IF chars = <<>> THEN <<>>
    ELSE IF Head(chars) \in {"\"", "\\"}
    THEN <<"\\", Head(chars)>> \o escape(Tail(chars))
    ELSE <<Head(chars)>> \o escape(Tail(chars))

\* a wrong reading: the characters as they are written
asWritten(chars) == chars

RECURSIVE unescape(_)
unescape(chars) ==
    IF chars = <<>> THEN <<>>
    ELSE IF Head(chars) = "\\" /\ Len(chars) >= 2
    THEN <<chars[2]>> \o unescape(SubSeq(chars, 3, Len(chars)))
    ELSE <<Head(chars)>> \o unescape(Tail(chars))

stringifyString(chars) == << [k |-> "s", v |-> escape(chars)] >>
\* a string of letters, which needs no escape
stringifyWord(word) == << [k |-> "w", v |-> word] >>
stringifyNumber(n) == << [k |-> "n", v |-> n] >>
stringifyBoolean(b) == << Literal(IF b THEN "true" ELSE "false") >>
stringifyNull == << Literal("null") >>

RECURSIVE JoinComma(_)
JoinComma(texts) ==
    IF texts = <<>> THEN <<>>
    ELSE IF Len(texts) = 1 THEN texts[1]
    ELSE texts[1] \o <<Punct(",")>> \o JoinComma(Tail(texts))

stringifyArray(texts) == <<Punct("[")>> \o JoinComma(texts) \o <<Punct("]")>>
\* members: a sequence of <<key, text of the value>>
stringifyObject(members) ==
    <<Punct("{")>>
    \o JoinComma([i \in 1..Len(members) |-> <<Key(members[i][1])>> \o members[i][2]])
    \o <<Punct("}")>>

SyntaxError(i) == [ok |-> FALSE, v |-> "SyntaxError", next |-> i]
IsPunct(text, i, c) == i <= Len(text) /\ text[i].k = "p" /\ text[i].v = c

RECURSIVE parseValue(_, _), parseElements(_, _, _), parseMembers(_, _, _)
\* the value that starts at token i, and the index behind it
parseValue(text, i) ==
    IF i > Len(text) THEN SyntaxError(i)
    ELSE IF text[i].k = "s"
    THEN [ok |-> TRUE, v |-> unescape(text[i].v), next |-> i + 1]
    ELSE IF text[i].k \in {"n", "w"}
    THEN [ok |-> TRUE, v |-> text[i].v, next |-> i + 1]
    ELSE IF text[i].k = "l"
    THEN [ok |-> TRUE,
          v |-> IF text[i].v = "null" THEN "null" ELSE text[i].v = "true",
          next |-> i + 1]
    ELSE IF IsPunct(text, i, "[")
    THEN IF IsPunct(text, i + 1, "]")
         THEN [ok |-> TRUE, v |-> <<>>, next |-> i + 2]
         ELSE parseElements(text, i + 1, <<>>)
    ELSE IF IsPunct(text, i, "{")
    THEN IF IsPunct(text, i + 1, "}")
         THEN [ok |-> TRUE, v |-> <<>>, next |-> i + 2]
         ELSE parseMembers(text, i + 1, <<>>)
    ELSE SyntaxError(i)

\* the elements of an array from token i on, those read so far in acc
parseElements(text, i, acc) ==
    LET element == parseValue(text, i)
    IN  IF ~element.ok THEN element
        ELSE IF IsPunct(text, element.next, ",")
        THEN parseElements(text, element.next + 1, Append(acc, element.v))
        ELSE IF IsPunct(text, element.next, "]")
        THEN [ok |-> TRUE, v |-> Append(acc, element.v), next |-> element.next + 1]
        ELSE SyntaxError(element.next)

\* the members of an object from token i on; a later key overrides
parseMembers(text, i, acc) ==
    IF i > Len(text) \/ text[i].k # "key" THEN SyntaxError(i)
    ELSE LET member == parseValue(text, i + 1)
             object == (text[i].v :> member.v) @@ acc
         IN  IF ~member.ok THEN member
             ELSE IF IsPunct(text, member.next, ",")
             THEN parseMembers(text, member.next + 1, object)
             ELSE IF IsPunct(text, member.next, "}")
             THEN [ok |-> TRUE, v |-> object, next |-> member.next + 1]
             ELSE SyntaxError(member.next)

\* JSON.parse: the value of the whole text, or not ok (it throws)
JSONparse(text) ==
    LET value == parseValue(text, 1)
    IN  IF value.ok /\ value.next # Len(text) + 1 THEN SyntaxError(value.next)
        ELSE value

(***************************************************************************)
(* Export and import (storage.js).  A project is the record createProject  *)
(* makes; null is the string "null".                                       *)
(***************************************************************************)
createProject(id, name, goal, now) ==
    [id |-> id,
     name |-> name,
     goal |-> goal,
     created |-> now,
     modified |-> now,
     ai_model |-> "claude",
     gist_id |-> "null",
     gist_url |-> "null",
     last_synced |-> "null",
     phases |-> <<>>,
     canvas_state |-> [zoom_level |-> 1, pan_x |-> 0, pan_y |-> 0]]

stringifySubtask(t) ==
    stringifyObject(<<
        <<"id", stringifyNumber(t.id)>>,
        <<"feature_id", stringifyNumber(t.feature_id)>>,
        <<"description", stringifyString(t.description)>>,
        <<"completed", stringifyBoolean(t.completed)>>,
        <<"ai_generated", stringifyBoolean(t.ai_generated)>> >>)

stringifyFeature(f) ==
    stringifyObject(<<
        <<"id", stringifyNumber(f.id)>>,
        <<"phase_id", stringifyNumber(f.phase_id)>>,
        <<"name", stringifyString(f.name)>>,
        <<"description", stringifyString(f.description)>>,
        <<"status", stringifyWord(f.status)>>,
        <<"ai_generated", stringifyBoolean(f.ai_generated)>>,
        <<"marked_as", stringifyWord(f.marked_as)>>,
        <<"dependencies",
          stringifyArray([i \in 1..Len(f.dependencies) |->
                             stringifyNumber(f.dependencies[i])])>>,
        <<"subtasks",
          stringifyArray([i \in 1..Len(f.subtasks) |->
                             stringifySubtask(f.subtasks[i])])>> >>)

stringifyPhase(ph) ==
    stringifyObject(<<
        <<"id", stringifyNumber(ph.id)>>,
        <<"name", stringifyString(ph.name)>>,
        <<"description", stringifyString(ph.description)>>,
        <<"order", stringifyNumber(ph.order)>>,
        <<"position",
          stringifyObject(<< <<"x", stringifyNumber(ph.position.x)>>,
                             <<"y", stringifyNumber(ph.position.y)>> >>)>>,
        <<"features",
          stringifyArray([i \in 1..Len(ph.features) |->
                             stringifyFeature(ph.features[i])])>> >>)

\* exportProject: the project with gist_id and last_synced null, wrapped
exportProject(project, now) ==
    stringifyObject(<<
        <<"version", stringifyString(<<"1", ".", "0">>)>>,
        <<"exported", stringifyNumber(now)>>,
        <<"project",
          stringifyObject(<<
              <<"id", stringifyNumber(project.id)>>,
              <<"name", stringifyString(project.name)>>,
              <<"goal", stringifyString(project.goal)>>,
              <<"created", stringifyNumber(project.created)>>,
              <<"modified", stringifyNumber(project.modified)>>,
              <<"ai_model", stringifyWord(project.ai_model)>>,
              <<"gist_id", stringifyNull>>,
              <<"gist_url", IF project.gist_url = "null" THEN stringifyNull
                            ELSE stringifyWord(project.gist_url)>>,
              <<"last_synced", stringifyNull>>,
              <<"phases",
                stringifyArray([i \in 1..Len(project.phases) |->
                                   stringifyPhase(project.phases[i])])>>,
              <<"canvas_state",
                stringifyObject(<<
                    <<"zoom_level", stringifyNumber(project.canvas_state.zoom_level)>>,
                    <<"pan_x", stringifyNumber(project.canvas_state.pan_x)>>,
                    <<"pan_y", stringifyNumber(project.canvas_state.pan_y)>> >>)>>
              >>)>> >>)

\* the number of generateId calls importProject makes for a phase
idsOfTree(ph) ==
    1 + SumSeq([j \in 1..Len(ph.features) |-> 1 + Len(ph.features[j].subtasks)])

\* lines 366-385: the ids of a phase and of what it holds, from newId on
reidentified(ph, newId) ==
    LET fid(j) == newId + 1 + SumSeq([m \in 1..(j - 1) |->
                                         1 + Len(ph.features[m].subtasks)])
    IN  [ph EXCEPT
            !.id = newId,
            !.features = [j \in 1..Len(ph.features) |->
                [ph.features[j] EXCEPT
                    !.id = fid(j),
                    !.phase_id = newId,
                    !.subtasks = [k \in 1..Len(ph.features[j].subtasks) |->
                        [ph.features[j].subtasks[k] EXCEPT
                            !.id = fid(j) + k,
                            !.feature_id = fid(j)]]]]]

\* idMap after the loop of lines 368-385: the pairs <<old id, new id>> of the
\* phases and features, a later set of a key replacing an earlier one
idPairs(old, new) ==
    Flatten([i \in 1..Len(old) |->
        << <<old[i].id, new[i].id>> >> \o
        [j \in 1..Len(old[i].features) |->
            <<old[i].features[j].id, new[i].features[j].id>>]])
idMapHas(pairs, oldId) == \E i \in 1..Len(pairs) : pairs[i][1] = oldId
idMapGet(pairs, oldId) ==
    LET last == CHOOSE i \in 1..Len(pairs) :
                    /\ pairs[i][1] = oldId
                    /\ \A j \in (i + 1)..Len(pairs) : pairs[j][1] # oldId
    IN  pairs[last][2]

\* a wrong rewrite: a reference the map does not know stays as it is
mappedKeepingUnknown(dependencies, pairs) ==
    [i \in 1..Len(dependencies) |->
        IF idMapHas(pairs, dependencies[i])
        THEN idMapGet(pairs, dependencies[i])
        ELSE dependencies[i]]

\* lines 388-395: the references that the map knows, mapped
mappedDependencies(dependencies, pairs) ==
    LET Known(depId) == idMapHas(pairs, depId)
        known == SelectSeq(dependencies, Known)
    IN  [i \in 1..Len(known) |-> idMapGet(pairs, known[i])]

\* importProject(jsonString), generateId having handed out base ids: the
\* project it resolves to, or not ok (it throws)
importProject(jsonString, base, now) ==
    LET parsed == JSONparse(jsonString)
        data == parsed.v
    IN  IF ~parsed.ok THEN [ok |-> FALSE, project |-> <<>>]
        ELSE IF ~({"version", "project"} \subseteq DOMAIN data)
                 \/ data.version = <<>>
        THEN [ok |-> FALSE, project |-> <<>>]
        ELSE
        LET old == data.project.phases
            pid(i) == base + 2 + SumSeq([m \in 1..(i - 1) |-> idsOfTree(old[m])])
            new == [i \in 1..Len(old) |-> reidentified(old[i], pid(i))]
            pairs == idPairs(old, new)
        IN  [ok |-> TRUE,
             project |->
                 [data.project EXCEPT
                     !.id = base + 1,
                     !.created = now,
                     !.modified = now,
                     !.gist_id = "null",
                     !.gist_url = "null",
                     !.last_synced = "null",
                     !.phases = [i \in 1..Len(new) |->
                         [new[i] EXCEPT !.features =
                             [j \in 1..Len(new[i].features) |->
                                 [new[i].features[j] EXCEPT !.dependencies =
                                     mappedDependencies(@, pairs)]]]]]]

(***************************************************************************)
(* SpecImport: a project is exported and the text imported.                *)
(***************************************************************************)
MaxImportSubtasks == 2  \* subtasks of a feature of the exported project
FirstImportId == 20     \* ids generateId has handed out before the import

\* phases 'b' and 'A:x', features 'q"' with n1 subtasks, the first done of
\* them completed, and 'l' with n2, depending on deps
importTree(n1, n2, done, deps) ==
    LET p == addPhase(addPhase(<<>>, 1, <<"b">>, <<>>), 2, <<"A", ":", "x">>,
                      <<"\\", "n">>)
        f1 == addFeature(p, 1, 3, <<"q", "\"">>, <<"d">>)
        RECURSIVE build(_, _, _, _, _)
        build(ps, pi, fi, firstId, n) ==
            IF n = 0 THEN ps
            ELSE addSubtask(build(ps, pi, fi, firstId, n - 1), pi, fi,
                            firstId + n - 1, <<"t", "\"">>)
        RECURSIVE toggled(_, _)
        toggled(ps, n) ==
            IF n = 0 THEN ps
            ELSE toggleSubtaskStatus(toggled(ps, n - 1), 3 + n)
        t1 == toggled(build(f1, 1, 1, 4, n1), done)
        f2 == build(addFeature(t1, 2, 4 + n1, <<"l">>, <<>>), 2, 1, 5 + n1, n2)
    IN  [f2 EXCEPT ![2].features[1].dependencies = deps]

ImportProjects ==
    { [createProject(10, name, <<"g">>, 0) EXCEPT
           !.phases = importTree(n1, n2, done, deps)] :
        name \in { <<"P">>, <<"\"", "\\">> },
        n1 \in 0..MaxImportSubtasks, n2 \in 0..MaxImportSubtasks,
        done \in 0..MaxImportSubtasks,
        deps \in { <<>>, <<3>>, <<15, 3, 1>> } }

NotExported == << >>
NotImported == [ok |-> FALSE, project |-> << >>, done |-> FALSE]

InitImport ==
    /\ phases = <<>>
    /\ nextId = FirstImportId
    /\ lastOp = "init"
    /\ MergeIdle
    /\ CanvasIdle
    /\ SyncIdle
    /\ PersistIdle
    /\ GestureIdle
    /\ GenerateIdle
    /\ GistIdle
    /\ CallAIIdle
    /\ SessionIdle
    /\ CallIdle
    /\ ViewIdle
    /\ exportIn \in ImportProjects
    /\ exportText = NotExported
    /\ importOut = NotImported

\* the export button: exportProject(project) at time 1
ExportProject ==
    /\ exportText = NotExported
    /\ exportText' = exportProject(exportIn, 1)
    /\ UNCHANGED <<exportIn, importOut, treeVars, mergeVars, canvasVars,
                   viewVars, callVars, sessionVars, callAIVars, gistVars,
                   generateVars,
                   gestureVars,
                   persistVars,
                   syncVars>>

\* the exported file is imported: importProject(text) at time 2
ImportProject ==
    LET result == importProject(exportText, nextId, 2)
    IN  /\ exportText # NotExported
        /\ ~importOut.done
        /\ importOut' = [ok |-> result.ok, project |-> result.project,
                         done |-> TRUE]
        /\ nextId' = IF result.ok
                     THEN nextId + 1 + SumSeq([i \in 1..Len(result.project.phases) |->
                                                  idsOfTree(result.project.phases[i])])
                     ELSE nextId
        /\ lastOp' = "import"
        /\ UNCHANGED <<phases, exportIn, exportText, mergeVars, canvasVars,
                       viewVars, callVars, sessionVars, callAIVars, gistVars,
                       generateVars,
                       gestureVars,
                       persistVars,
                       syncVars>>

NextImport ==
    \/ ExportProject
    \/ ImportProject

SpecImport == InitImport /\ [][NextImport]_vars

\* the names, descriptions and completed flags of a tree, in its order
Outline(ps) ==
    [i \in 1..Len(ps) |->
        [name |-> ps[i].name,
         description |-> ps[i].description,
         features |-> [j \in 1..Len(ps[i].features) |->
             [name |-> ps[i].features[j].name,
              description |-> ps[i].features[j].description,
              subtasks |-> [k \in 1..Len(ps[i].features[j].subtasks) |->
                  [description |-> ps[i].features[j].subtasks[k].description,
                   completed |-> ps[i].features[j].subtasks[k].completed]]]]]]

\* C10: importProject(exportProject(P)) resolves to a project with as many
\* phases, features in each phase and subtasks in each feature as P, in the
\* same order, with the same names, descriptions and completed flags.
C10_ImportRoundTrip ==
    importOut.done =>
        /\ importOut.ok
        /\ Outline(importOut.project.phases) = Outline(exportIn.phases)

\* a project with a completed and an open subtask, whose names need their
\* escapes, has been exported and imported
C10_Witness ==
    /\ importOut.done
    /\ importOut.ok
    /\ exportIn.name = <<"\"", "\\">>
    /\ Len(exportIn.phases[1].features[1].subtasks) = 2
    /\ exportIn.phases[1].features[1].subtasks[1].completed
    /\ ~exportIn.phases[1].features[1].subtasks[2].completed
    /\ importOut.project.phases[1].id # exportIn.phases[1].id

\* the ids of the phases and features of a tree
entityIds(ps) == phaseIds(ps) \cup featureIds(ps)

\* new id n is at the place in the new tree where old id o is in the old one
Replaces(old, new, o, n) ==
    \/ \E i \in 1..Len(old) : old[i].id = o /\ new[i].id = n
    \/ \E at \in Range(featurePaths(old)) :
          /\ old[at[1]].features[at[2]].id = o
          /\ new[at[1]].features[at[2]].id = n

\* C11: after importProject the dependencies of every feature are, in their
\* order, the new ids of the original entries that were ids of the tree,
\* each an id of the imported tree; the entries that pointed outside it are
\* gone.
C11_DependenciesRemapped ==
    (importOut.done /\ importOut.ok) =>
    LET old == exportIn.phases
        new == importOut.project.phases
        Known(d) == d \in entityIds(old)
    IN  \A at \in Range(featurePaths(old)) :
            LET before == old[at[1]].features[at[2]].dependencies
                after == new[at[1]].features[at[2]].dependencies
                surviving == SelectSeq(before, Known)
            IN  /\ Len(after) = Len(surviving)
                /\ \A k \in 1..Len(surviving) :
                      /\ Replaces(old, new, surviving[k], after[k])
                      /\ after[k] \in entityIds(new)
                /\ \A d \in Range(before) : ~Known(d) => d \notin Range(after)

\* a feature that referred to an id outside the tree, to a feature and to a
\* phase has been imported, and two references are left
C11_Witness ==
    /\ importOut.done
    /\ importOut.ok
    /\ exportIn.phases[2].features[1].dependencies = <<15, 3, 1>>
    /\ Len(importOut.project.phases[2].features[1].dependencies) = 2

(***************************************************************************)
(* The dependency lines (canvas.js:904-983).  The cards on the canvas are  *)
(* those renderProject built from the tree (canvas.js:307-438): a feature  *)
(* has a card 'feature-<id>' when its phase is not collapsed.              *)
(***************************************************************************)
\* document.getElementById with any id finds an element (not the program's)
anyElement(ps, cp, id) == TRUE

\* document.getElementById('feature-' + id) finds an element
\* (createPhaseElement, canvas.js:343-378: the features of a phase are
\* rendered when the phase is not collapsed)
featureElement(ps, cp, id) ==
    \E pi \in 1..Len(ps) :
        /\ ps[pi].id \notin cp
        /\ \E fi \in 1..Len(ps[pi].features) : ps[pi].features[fi].id = id

\* drawDependencyLine (canvas.js:967-977): the line appended to the overlay
drawDependencyLine(from, to, type) ==
    <<[from |-> from, to |-> to, type |-> type]>>

\* the lines of one entry of feature.dependencies (canvas.js:935-963)
linesOfDependency(ps, cp, featureId, depId) ==
    IF featureElement(ps, cp, depId)
    THEN LET depResult == findFeature(ps, depId)
             indirect ==
                 IF depResult[1] = 0 THEN <<>>
                 ELSE LET deps == ps[depResult[1]].features[depResult[2]].dependencies
                      IN  Flatten([k \in 1..Len(deps) |->
                              IF featureElement(ps, cp, deps[k])
                              THEN drawDependencyLine(depId, deps[k], "indirect")
                              ELSE <<>>])
         IN  drawDependencyLine(featureId, depId, "direct") \o indirect
    ELSE <<>>

\* showDependencies (canvas.js:906-965): the active feature and the lines
\* of the overlay after the call
showDependencies(ps, cp, active, lines, featureId) ==
    IF active = featureId
    THEN [active |-> 0, lines |-> <<>>]
    ELSE LET result == findFeature(ps, featureId)
         IN  IF result[1] = 0
             THEN [active |-> featureId, lines |-> lines]
             ELSE IF ~featureElement(ps, cp, featureId)
             THEN [active |-> featureId, lines |-> <<>>]
             ELSE LET deps == ps[result[1]].features[result[2]].dependencies
                  IN  [active |-> featureId,
                       lines |-> Flatten([k \in 1..Len(deps) |->
                           linesOfDependency(ps, cp, featureId, deps[k])])]

\* the 'dependencies' button of a feature card (canvas.js:555-570, 748-772)
ShowDependencies(featureId) ==
    LET shown == showDependencies(phases, collapsedPhases,
                                  activeDependencyFeatureId, dependencyLines,
                                  featureId)
    IN  /\ featureElement(phases, collapsedPhases, featureId)
        /\ activeDependencyFeatureId' = shown.active
        /\ dependencyLines' = shown.lines
        /\ lastOp' = "dependencies"
        /\ UNCHANGED <<phases, nextId, collapsedPhases>>

\* togglePhaseCollapse (canvas.js:623-633)
TogglePhaseCollapse(phaseId) ==
    /\ findPhase(phases, phaseId) # 0
    /\ collapsedPhases' = IF phaseId \in collapsedPhases
                          THEN collapsedPhases \ {phaseId}
                          ELSE collapsedPhases \cup {phaseId}
    /\ lastOp' = "collapse"
    /\ UNCHANGED <<phases, nextId, activeDependencyFeatureId, dependencyLines>>

(***************************************************************************)
(* SpecDeps: a project whose features depend on each other (the lists come *)
(* with an imported file, storage.js:368-378), its phases collapsed and    *)
(* expanded, its features deleted, the dependencies button.                *)
(***************************************************************************)
\* phase 'b' (1) with features 3 and 4, phase 'A:x' (2) with feature 5
depsTree(d3, d4, d5) ==
    LET p == addPhase(addPhase(<<>>, 1, <<"b">>, <<>>), 2, <<"A", ":", "x">>,
                      <<>>)
        f == addFeature(addFeature(addFeature(p, 1, 3, <<"L">>, <<>>),
                                   1, 4, <<"l">>, <<>>),
                        2, 5, <<"q">>, <<>>)
    IN  [f EXCEPT ![1].features[1].dependencies = d3,
                  ![1].features[2].dependencies = d4,
                  ![2].features[1].dependencies = d5]

InitDeps ==
    /\ phases \in { depsTree(d3, d4, d5) :
                       d3 \in { <<4, 5>>, <<5, 1>> },
                       d4 \in { <<>>, <<5>> },
                       d5 \in { <<>>, <<3>> } }
    /\ nextId = 5
    /\ lastOp = "init"
    /\ MergeIdle
    /\ CanvasIdle
    /\ SyncIdle
    /\ PersistIdle
    /\ GestureIdle
    /\ GenerateIdle
    /\ GistIdle
    /\ CallAIIdle
    /\ SessionIdle
    /\ CallIdle
    /\ ImportIdle
    /\ ViewIdle

NextDeps ==
    /\ \/ \E id \in featureIds(phases) : ShowDependencies(id)
       \/ \E id \in phaseIds(phases) : TogglePhaseCollapse(id)
       \/ \E id \in featureIds(phases) :
              DeleteFeatureWithConfirm(id) /\ UNCHANGED viewVars
    /\ UNCHANGED <<mergeVars, canvasVars, importVars, callVars, sessionVars,
                   callAIVars, gistVars,
                   generateVars,
                   gestureVars,
                   persistVars,
                   syncVars>>

SpecDeps == InitDeps /\ [][NextDeps]_vars

\* the feature a step of the dependencies button was pressed on
pressedFeature == IF activeDependencyFeatureId' # 0
                  THEN activeDependencyFeatureId'
                  ELSE activeDependencyFeatureId

\* the dependencies list of a feature of the tree
dependenciesOf(ps, featureId) ==
    LET at == findFeature(ps, featureId)
    IN  ps[at[1]].features[at[2]].dependencies

\* C12 (as stated): a call of showDependencies for a feature with a
\* dependency id that is no feature's draws no line to that id and draws the
\* line to every dependency that is a feature.
C12_DanglingSkippedOthersDrawn ==
    [][lastOp' = "dependencies" =>
        LET deps == dependenciesOf(phases, pressedFeature)
        IN  (\E d \in Range(deps) : d \notin featureIds(phases)) =>
              /\ \A k \in 1..Len(dependencyLines') :
                     dependencyLines'[k].to \in featureIds(phases)
              /\ \A d \in Range(deps) :
                     d \in featureIds(phases) =>
                         [from |-> pressedFeature, to |-> d, type |-> "direct"]
                             \in Range(dependencyLines')]_vars

\* C12 (amended): a call of showDependencies that turns the display on, for
\* a feature with a dependency id that is no feature's, draws no line to an
\* id that is no feature's and draws the line to every dependency whose
\* feature has a card on the canvas (its phase is not collapsed); a call for
\* the feature already shown leaves no line.
C12_DanglingSkippedRenderedDrawn ==
    [][lastOp' = "dependencies" =>
        LET deps == dependenciesOf(phases, pressedFeature)
        IN  (\E d \in Range(deps) : d \notin featureIds(phases)) =>
              /\ \A k \in 1..Len(dependencyLines') :
                     dependencyLines'[k].to \in featureIds(phases)
              /\ activeDependencyFeatureId' # 0 =>
                   \A d \in Range(deps) :
                     featureElement(phases, collapsedPhases, d) =>
                         [from |-> pressedFeature, to |-> d, type |-> "direct"]
                             \in Range(dependencyLines')
              /\ activeDependencyFeatureId' = 0 => dependencyLines' = <<>>]_vars

\* the dependencies of feature 3 are shown after feature 4, one of them, was
\* deleted: the line to feature 5 is there
C12_Witness ==
    /\ lastOp = "dependencies"
    /\ activeDependencyFeatureId = 3
    /\ dependenciesOf(phases, 3) = <<4, 5>>
    /\ 4 \notin featureIds(phases)
    /\ dependencyLines # <<>>
    /\ dependencyLines[1] = [from |-> 3, to |-> 5, type |-> "direct"]

(***************************************************************************)
(* SpecLookup: the tree is built by the add handlers, and findPhase,       *)
(* findFeature, findSubtask, deletePhase, deleteFeature and                *)
(* deleteSubtaskFromProject (storage.js:244-305) are called with ids that  *)
(* are in the tree and ids that are not.                                   *)
(***************************************************************************)
MaxLookupId == 3    \* ids generateId hands out in SpecLookup

\* an id after all those handed out, one that was never in the tree
LookupIds == 1..(MaxLookupId + 1)

StoreCall(op, id, result, after) ==
    /\ storeCall' = [op |-> op, id |-> id, result |-> result]
    /\ phases' = after
    /\ lastOp' = "storeCall"
    /\ UNCHANGED nextId

FindPhaseCall(id) ==
    StoreCall("findPhase", id, findPhase(phases, id), phases)

FindFeatureCall(id) ==
    StoreCall("findFeature", id, findFeature(phases, id), phases)

FindSubtaskCall(id) ==
    StoreCall("findSubtask", id, findSubtask(phases, id), phases)

DeletePhaseCall(id) ==
    StoreCall("deletePhase", id, deletePhase(phases, id).ok,
              deletePhase(phases, id).phases)

DeleteFeatureCall(id) ==
    StoreCall("deleteFeature", id, deleteFeature(phases, id).ok,
              deleteFeature(phases, id).phases)

DeleteSubtaskCall(id) ==
    StoreCall("deleteSubtaskFromProject", id,
              deleteSubtaskFromProject(phases, id).ok,
              deleteSubtaskFromProject(phases, id).phases)

NextLookup ==
    /\ \/ /\ \/ AddNewPhase(<<"b">>, MaxLookupId)
             \/ \E id \in phaseIds(phases) :
                    AddNewFeature(id, <<"L">>, MaxLookupId)
             \/ \E id \in featureIds(phases) :
                    AddNewSubtask(id, "t", MaxLookupId)
          /\ UNCHANGED storeCall
       \/ \E id \in LookupIds : FindPhaseCall(id)
       \/ \E id \in LookupIds : FindFeatureCall(id)
       \/ \E id \in LookupIds : FindSubtaskCall(id)
       \/ \E id \in LookupIds : DeletePhaseCall(id)
       \/ \E id \in LookupIds : DeleteFeatureCall(id)
       \/ \E id \in LookupIds : DeleteSubtaskCall(id)
    /\ UNCHANGED <<mergeVars, canvasVars, importVars, viewVars, sessionVars,
                   callAIVars, gistVars,
                   generateVars,
                   gestureVars,
                   persistVars,
                   syncVars>>

SpecLookup == Init /\ [][NextLookup]_vars

\* the ids an operation of storage.js looks among
idsSearchedBy(op, ps) ==
    IF op \in {"findPhase", "deletePhase"} THEN phaseIds(ps)
    ELSE IF op \in {"findFeature", "deleteFeature"} THEN featureIds(ps)
    ELSE subtaskIds(ps)

\* the result of an operation that found nothing: undefined or null of a
\* find, false of a delete
absentResult(op) ==
    IF op = "findPhase" THEN 0
    ELSE IF op = "findFeature" THEN <<0, 0>>
    ELSE IF op = "findSubtask" THEN <<0, 0, 0>>
    ELSE FALSE

\* C13: a call of findPhase, findFeature, findSubtask, deletePhase,
\* deleteFeature or deleteSubtaskFromProject with an id that is not in the
\* project returns the absent result (false for a delete) and leaves the
\* tree, with its order values, as it was.
C13_AbsentIdChangesNothing ==
    [][(lastOp' = "storeCall"
          /\ storeCall'.id \notin idsSearchedBy(storeCall'.op, phases)) =>
        /\ storeCall'.result = absentResult(storeCall'.op)
        /\ phases' = phases]_vars

\* deleteSubtaskFromProject has just returned false for an id that is not
\* in a tree with a phase, a feature and a subtask
C13_Witness ==
    /\ lastOp = "storeCall"
    /\ storeCall.op = "deleteSubtaskFromProject"
    /\ storeCall.result = FALSE
    /\ subtaskIds(phases) # {}
    /\ storeCall.id \notin entityIds(phases) \cup subtaskIds(phases)

\* C14: a call of deleteSubtask that leaves the feature with subtasks, all
\* of them completed, leaves the feature's status 'complete'.
C14_DeleteRecomputesStatus ==
    [][lastOp' = "deleteSubtask" =>
        \A at \in Range(featurePaths(phases)) :
            LET f == phases[at[1]].features[at[2]]
                g == phases'[at[1]].features[at[2]]
            IN  (f.subtasks # g.subtasks /\ g.subtasks # <<>>
                   /\ AllCompleted(g.subtasks)) =>
                     g.status = "complete"]_vars

\* C15: an AI generation attempt that does not succeed (callAI reports no
\* success or an empty plan, or the merge or the application raises) leaves
\* the phases, features and subtasks of the current project as they were.
C15_FailedAttemptChangesNothing ==
    [][lastOp' \in {"aiRejected", "aiRaised"} => phases' = phases]_vars

\* the attempts that fail before applyAIResponse has assigned project.phases
\* change nothing: the only failure that leaves another tree is a raise of
\* the re-insertion loop
FailedBeforeApplyChangesNothing ==
    [][(lastOp' \in {"aiRejected", "aiRaised"} /\ phases' # phases) =>
        \E result \in AIResults :
            LET merged == mergeAIResponse(result.data, buildAIContext(phases))
            IN  /\ result.success
                /\ ~merged.raised
                /\ applyAIResponse(withKeepItems(phases, merged.keepItems),
                                   merged.phases, nextId).raised]_vars

(***************************************************************************)
(* SpecSession: the current project, the debounced autosave and the two    *)
(* handlers that wait: openProject (main module:217-250) for getProject,   *)
(* handleAIGenerate (537-661) for callAI.  A project object is the project *)
(* id and the number of the last mutation it has seen (rev); the tree is   *)
(* left out.  Time is in seconds; a timer fires when it is due.            *)
(***************************************************************************)
MaxProjects == 2     \* projects in the store
MaxObjects == 2      \* project objects loaded, the one of init included
MaxMutations == 2    \* mutations of project objects
MaxTime == 2         \* the time after which only pending timers let time pass
AUTOSAVE_WAIT == 2   \* debounce(..., 2000), in seconds

\* a debounce that leaves the pending timer (not the program's)
notCleared(ts, id) == ts

\* clearTimeout(id)
clearTimeout(ts, id) == { t \in ts : t.id # id }

\* autoSave(): the function debounce returns (canvas.js:1107-1115)
AutoSaveInvoked ==
    /\ timers' = clearTimeout(timers, timeout)
                     \cup {[id |-> timerCount + 1, due |-> clock + AUTOSAVE_WAIT]}
    /\ timeout' = timerCount + 1
    /\ timerCount' = timerCount + 1
    /\ calls' = calls + 1
    /\ lastCall' = clock

\* a mutation of project object ref
MutateObject(ref) ==
    /\ stamp < MaxMutations
    /\ objects' = [objects EXCEPT ![ref].rev = stamp + 1]
    /\ stamp' = stamp + 1
    /\ latest' = [latest EXCEPT ![objects[ref].id] = stamp + 1]

\* a canvas handler (canvas.js:623-841): it changes the current project,
\* renders it and calls autoSave
CanvasHandler ==
    /\ currentProject # 0
    /\ MutateObject(currentProject)
    /\ sessionOp' = [op |-> "render", project |-> currentProject,
                     current |-> currentProject, n |-> 0]
    /\ AutoSaveInvoked
    /\ UNCHANGED <<db, currentProject, clock, aiTask, openTask, writes>>

\* the timer of debounce fires: later (canvas.js:1109-1112) and the function
\* of storage.js:320-329, up to the put of updateProject (storage.js:108-119)
AutosaveTimerFires ==
    \E t \in timers :
        /\ t.due <= clock
        /\ timers' = clearTimeout(timers \ {t}, timeout)
        /\ calls' = 0
        /\ IF currentProject # 0
           THEN /\ db' = [db EXCEPT ![objects[currentProject].id] =
                                        objects[currentProject].rev]
                /\ writes' = writes + 1
                /\ sessionOp' = [op |-> "write", project |-> currentProject,
                                 current |-> currentProject, n |-> calls]
           ELSE UNCHANGED <<db, writes, sessionOp>>
        /\ UNCHANGED <<objects, currentProject, timeout, timerCount, clock, stamp,
                       latest, aiTask, openTask, lastCall>>

\* a second passes; no timer is overdue
Tick ==
    /\ clock < MaxTime \/ timers # {}
    /\ \A t \in timers : clock < t.due
    /\ clock' = clock + 1
    /\ UNCHANGED <<db, objects, currentProject, timers, timeout, timerCount,
                   stamp, latest, aiTask, openTask, sessionOp, calls, lastCall,
                   writes>>

\* openProject(projectId), up to await getProject (main module:217-219)
OpenProjectStart(projectId) ==
    /\ openTask.pc = "idle"
    /\ Len(objects) < MaxObjects
    /\ openTask' = [pc |-> "awaiting", id |-> projectId]
    /\ UNCHANGED <<db, objects, currentProject, timers, timeout, timerCount,
                   clock, stamp, latest, aiTask, sessionOp, calls, lastCall,
                   writes>>

\* openProject from the resolution of getProject (main module:219-240)
OpenProjectResume ==
    /\ openTask.pc = "awaiting"
    /\ objects' = Append(objects, [id |-> openTask.id, rev |-> db[openTask.id]])
    /\ currentProject' = Len(objects) + 1
    /\ sessionOp' = [op |-> "render", project |-> Len(objects) + 1,
                     current |-> Len(objects) + 1, n |-> 0]
    /\ openTask' = [pc |-> "idle", id |-> 0]
    /\ UNCHANGED <<db, timers, timeout, timerCount, clock, stamp, latest, aiTask,
                   calls, lastCall, writes>>

\* handleAIGenerate up to await callAI (main module:537-597): project is the
\* current project of line 540
AIGenerateStart ==
    /\ aiTask.pc = "idle"
    /\ currentProject # 0
    /\ stamp < MaxMutations
    /\ aiTask' = [pc |-> "awaiting", project |-> currentProject]
    /\ UNCHANGED <<db, objects, currentProject, timers, timeout, timerCount,
                   clock, stamp, latest, openTask, sessionOp, calls, lastCall,
                   writes>>

\* handleAIGenerate from the result of callAI (main module:598-661)
AIGenerateResume(success) ==
    /\ aiTask.pc = "awaiting"
    /\ aiTask' = [pc |-> "idle", project |-> 0]
    /\ IF success
       THEN /\ MutateObject(aiTask.project)
            /\ sessionOp' = [op |-> "aiApplied", project |-> aiTask.project,
                             current |-> currentProject, n |-> 0]
            /\ AutoSaveInvoked
            /\ UNCHANGED <<db, currentProject, clock, openTask, writes>>
       ELSE /\ sessionOp' = [op |-> "aiFailed", project |-> aiTask.project,
                             current |-> currentProject, n |-> 0]
            /\ UNCHANGED <<db, objects, currentProject, timers, timeout,
                           timerCount, clock, stamp, latest, openTask, calls,
                           lastCall, writes>>

InitSession ==
    /\ TreeIdle
    /\ MergeIdle
    /\ CanvasIdle
    /\ SyncIdle
    /\ PersistIdle
    /\ GestureIdle
    /\ GenerateIdle
    /\ GistIdle
    /\ CallAIIdle
    /\ ImportIdle
    /\ ViewIdle
    /\ CallIdle
    /\ db = [p \in 1..MaxProjects |-> 0]
    /\ objects = <<[id |-> 1, rev |-> 0]>>
    /\ currentProject = 1
    /\ timers = {}
    /\ timeout = 0
    /\ timerCount = 0
    /\ clock = 0
    /\ stamp = 0
    /\ latest = [p \in 1..MaxProjects |-> 0]
    /\ aiTask = [pc |-> "idle", project |-> 0]
    /\ openTask = [pc |-> "idle", id |-> 0]
    /\ sessionOp = [op |-> "init", project |-> 1, current |-> 1, n |-> 0]
    /\ calls = 0
    /\ lastCall = 0
    /\ writes = 0

\* the other parts of the program are not running
SessionFrame ==
    UNCHANGED <<treeVars, mergeVars, canvasVars, importVars, viewVars,
                callVars, callAIVars, gistVars,
                generateVars,
                gestureVars,
                persistVars,
                syncVars>>

NextSession ==
    /\ \/ CanvasHandler
       \/ AutosaveTimerFires
       \/ Tick
       \/ \E id \in 1..MaxProjects : OpenProjectStart(id)
       \/ OpenProjectResume
       \/ AIGenerateStart
       \/ \E success \in BOOLEAN : AIGenerateResume(success)
    /\ SessionFrame

SpecSession == InitSession /\ [][NextSession]_vars

\* the timers fire, time passes, getProject and callAI come back
FairSession ==
    /\ SpecSession
    /\ WF_vars(AutosaveTimerFires /\ SessionFrame)
    /\ WF_vars(Tick /\ SessionFrame)
    /\ WF_vars(OpenProjectResume /\ SessionFrame)
    /\ WF_vars((\E success \in BOOLEAN : AIGenerateResume(success))
                   /\ SessionFrame)

\* C16: the project an AI response is applied to, the project that is
\* rendered and the project an autosave writes are the current project at
\* that moment.
C16_ActsOnCurrentProject ==
    sessionOp.op \in {"aiApplied", "render", "write"} =>
        sessionOp.project = sessionOp.current

\* the renders of the handlers and of openProject and the writes of autoSave
\* are of the current project: only the AI response goes elsewhere
OnlyAIActsElsewhere ==
    sessionOp.op \in {"render", "write"} =>
        sessionOp.project = sessionOp.current

\* C17: at most one autosave timer is pending; while invocations are
\* unsaved the timer of the last one is pending, due a window after it, and
\* time does not pass that moment without the write; a write is one write,
\* issued a full window after the last invocation, for all the invocations
\* since the write before, and it stores the state the current project has
\* at that moment.
C17_TrailingDebounce ==
    /\ [](Cardinality(timers) <= 1)
    /\ [](calls > 0 =>
             /\ timers = {[id |-> timeout, due |-> lastCall + AUTOSAVE_WAIT]}
             /\ clock <= lastCall + AUTOSAVE_WAIT)
    /\ [](calls = 0 => timers = {})
    /\ [][writes' # writes =>
             /\ writes' = writes + 1
             /\ calls >= 1
             /\ calls' = 0
             /\ clock = lastCall + AUTOSAVE_WAIT
             /\ db'[objects[currentProject].id] = objects[currentProject].rev]_vars

\* the first write has been issued for two invocations of autoSave
C17_Witness ==
    /\ sessionOp.op = "write"
    /\ sessionOp.n = 2
    /\ writes = 1
    /\ timers = {}

\* C18: when the mutations have stopped, the store comes to hold, and goes
\* on holding, the latest state of every project that was mutated.
C18_LastStateWins ==
    <>[](\A p \in DOMAIN db : latest[p] # 0 => db[p] = latest[p])

(***************************************************************************)
(* SpecCallAI: one call of callAI (ai.js:216-296) and the network.  The    *)
(* promise of fetch settles when the response's status and headers are in; *)
(* response.json() settles when the body is.  Time is in seconds.          *)
(***************************************************************************)
MaxCallTime == 62   \* the time after which a call is not followed further
AI_TIMEOUT == 60    \* setTimeout(..., 60000), in seconds

CallFinished == callPc \in {"returned", "thrown"}

\* a setTimeout that is never due (not the program's)
neverDue(at, wait) == 0

\* setTimeout(callback, wait) at time at: when the callback is due
setTimeout(at, wait) == at + wait

\* callAI without an API key (ai.js:225-230): it throws, nothing is sent
CallAIWithoutKey ==
    /\ callPc = "idle"
    /\ callPc' = "thrown"
    /\ callOutcome' = "noKey"
    /\ callEnd' = callClock
    /\ UNCHANGED <<callClock, timeoutId, fetches, aborted, callStart>>

\* callAI with a key, up to await fetch (ai.js:216-266)
CallAIIssuesRequest ==
    /\ callPc = "idle"
    /\ timeoutId' = setTimeout(callClock, AI_TIMEOUT)
    /\ fetches' = fetches + 1
    /\ callStart' = callClock
    /\ callPc' = "fetching"
    /\ UNCHANGED <<callClock, aborted, callOutcome, callEnd>>

\* the timer of ai.js:253-256 fires: controller.abort()
TimeoutFires ==
    /\ timeoutId # 0
    /\ callClock >= timeoutId
    /\ aborted' = TRUE
    /\ timeoutId' = 0
    /\ UNCHANGED <<callPc, callClock, fetches, callOutcome, callStart, callEnd>>

\* the aborted fetch rejects with an AbortError (ai.js:285-290)
AbortRejects ==
    /\ callPc = "fetching"
    /\ aborted
    /\ timeoutId' = 0
    /\ callPc' = "thrown"
    /\ callOutcome' = "timeout"
    /\ callEnd' = callClock
    /\ UNCHANGED <<callClock, fetches, aborted, callStart>>

\* fetch rejects: a network error (ai.js:285-294)
FetchRejects ==
    /\ callPc = "fetching"
    /\ ~aborted
    /\ timeoutId' = 0
    /\ callPc' = "thrown"
    /\ callOutcome' = "networkError"
    /\ callEnd' = callClock
    /\ UNCHANGED <<callClock, fetches, aborted, callStart>>

\* fetch resolves with the response's status (ai.js:261-271):
\* clearTimeout(timeoutId), then await response.json()
FetchResolves(ok) ==
    /\ callPc = "fetching"
    /\ ~aborted
    /\ timeoutId' = 0
    /\ callPc' = IF ok THEN "readingBody" ELSE "readingError"
    /\ UNCHANGED <<callClock, fetches, aborted, callOutcome, callStart, callEnd>>

\* response.json() settles (ai.js:273-283): the parse result of
\* parseAIResponse, or the error thrown for a response that is not ok or a
\* body that cannot be read
BodySettles(read) ==
    /\ callPc \in {"readingBody", "readingError"}
    /\ callPc' = IF callPc = "readingBody" /\ read THEN "returned" ELSE "thrown"
    /\ callOutcome' = IF callPc = "readingError" THEN "apiError"
                      ELSE IF read THEN "parsed" ELSE "networkError"
    /\ timeoutId' = 0
    /\ callEnd' = callClock
    /\ UNCHANGED <<callClock, fetches, aborted, callStart>>

\* a second passes: no timer is overdue, no rejection is waiting to be handled
CallTick ==
    /\ ~CallFinished
    /\ callClock < MaxCallTime
    /\ timeoutId # 0 => callClock < timeoutId
    /\ ~(aborted /\ callPc = "fetching")
    /\ callClock' = callClock + 1
    /\ UNCHANGED <<callPc, timeoutId, fetches, aborted, callOutcome, callStart,
                   callEnd>>

CallAIFrame ==
    UNCHANGED <<treeVars, mergeVars, canvasVars, importVars, viewVars, callVars,
                sessionVars, gistVars,
                generateVars,
                gestureVars,
                persistVars,
                syncVars>>

InitCallAI ==
    /\ TreeIdle
    /\ MergeIdle
    /\ CanvasIdle
    /\ SyncIdle
    /\ PersistIdle
    /\ GestureIdle
    /\ GenerateIdle
    /\ ImportIdle
    /\ ViewIdle
    /\ CallIdle
    /\ SessionIdle
    /\ GistIdle
    /\ CallAIIdle

NextCallAI ==
    /\ \/ CallAIWithoutKey
       \/ CallAIIssuesRequest
       \/ TimeoutFires
       \/ AbortRejects
       \/ FetchRejects
       \/ \E ok \in BOOLEAN : FetchResolves(ok)
       \/ \E read \in BOOLEAN : BodySettles(read)
       \/ CallTick
    /\ CallAIFrame

SpecCallAI == InitCallAI /\ [][NextCallAI]_vars

\* C19: a call of callAI that has issued its request is over within 60
\* seconds of it, with a parse result, an API or network error, or, the
\* request aborted, the timeout error; it issues one request, and no timer is
\* armed when it is over.
C19_CallEndsWithinTimeout ==
    /\ fetches <= 1
    /\ (fetches = 1 /\ ~CallFinished) => callClock <= callStart + AI_TIMEOUT
    /\ (fetches = 1 /\ CallFinished) =>
          /\ callEnd <= callStart + AI_TIMEOUT
          /\ timeoutId = 0
          /\ callOutcome \in {"parsed", "apiError", "networkError", "timeout"}
          /\ aborted <=> callOutcome = "timeout"

\* the same, with the bound on the time only until fetch has settled, that
\* is until the status and the headers of the response are in
CallBoundedUntilHeaders ==
    /\ fetches <= 1
    /\ (fetches = 1 /\ callPc = "fetching") => callClock <= callStart + AI_TIMEOUT
    /\ (fetches = 1 /\ CallFinished) =>
          /\ timeoutId = 0
          /\ callOutcome \in {"parsed", "apiError", "networkError", "timeout"}
          /\ aborted <=> callOutcome = "timeout"
          /\ callOutcome = "timeout" => callEnd = callStart + AI_TIMEOUT

(***************************************************************************)
(* SpecGist: the GitHub token and the three sync operations of gist.js,    *)
(* each up to its fetch and then from the response.                        *)
(***************************************************************************)
MaxGistRequests == 2   \* requests sent to api.github.com

\* btoa and atob, as far as the token needs them: an encoding that is not
\* the text itself, that atob undoes, and that is empty for the empty text
btoa(text) == IF text = <<>> THEN <<>> ELSE text \o <<"=">>
atob(encoded) ==
    IF encoded = <<>> THEN <<>> ELSE SubSeq(encoded, 1, Len(encoded) - 1)

\* getDecodedToken (gist.js:25-29), <<>> for null
getDecodedToken(setting) == IF setting = <<>> THEN <<>> ELSE atob(setting)

\* saveGithubToken (gist.js:14-16)
SaveGithubToken(token) ==
    /\ githubToken' = btoa(token)
    /\ UNCHANGED <<gistCall, gistRequests>>

\* a sync operation that throws before its fetch
GistThrows(op, token, error) ==
    /\ gistCall' = [op |-> op, pc |-> "thrown", hadToken |-> token # <<>>,
                    sent |-> 0, error |-> error]
    /\ UNCHANGED <<githubToken, gistRequests>>

\* a sync operation at its await fetch
GistSends(op, token, method, authorization) ==
    /\ Len(gistRequests) < MaxGistRequests
    /\ gistCall' = [op |-> op, pc |-> "awaiting", hadToken |-> token # <<>>,
                    sent |-> 1, error |-> "none"]
    /\ gistRequests' = Append(gistRequests,
                              [method |-> method, authorization |-> authorization])
    /\ UNCHANGED githubToken

\* createGist (gist.js:32-64)
CreateGist ==
    LET token == getDecodedToken(githubToken)
    IN  /\ gistCall.pc # "awaiting"
        /\ IF token = <<>>
           THEN GistThrows("createGist", token, "GitHub token not set")
           ELSE GistSends("createGist", token, "POST", token)

\* updateGist (gist.js:81-116), for a project with or without a gist_id
UpdateGist(hasGistId) ==
    LET token == getDecodedToken(githubToken)
    IN  /\ gistCall.pc # "awaiting"
        /\ IF token = <<>>
           THEN GistThrows("updateGist", token, "GitHub token not set")
           ELSE IF ~hasGistId
           THEN GistThrows("updateGist", token, "Project has no associated Gist")
           ELSE GistSends("updateGist", token, "PATCH", token)

\* fetchGist (gist.js:130-144): the Authorization header is set when there
\* is a token
FetchGist ==
    LET token == getDecodedToken(githubToken)
    IN  /\ gistCall.pc # "awaiting"
        /\ GistSends("fetchGist", token, "GET", token)

\* the response arrives (gist.js:66-78, 118-126, 146-168)
GistResponse(ok) ==
    /\ gistCall.pc = "awaiting"
    /\ gistCall' = [gistCall EXCEPT
                       !.pc = IF ok THEN "returned" ELSE "thrown",
                       !.error = IF ok THEN "none" ELSE "Failed"]
    /\ UNCHANGED <<githubToken, gistRequests>>

NextGist ==
    /\ \/ \E token \in { <<"t">>, <<"u">> } : SaveGithubToken(token)
       \/ CreateGist
       \/ \E hasGistId \in BOOLEAN : UpdateGist(hasGistId)
       \/ FetchGist
       \/ \E ok \in BOOLEAN : GistResponse(ok)
    /\ UNCHANGED <<treeVars, mergeVars, canvasVars, importVars, viewVars,
                   callVars, sessionVars, callAIVars,
                   generateVars,
                   gestureVars,
                   persistVars,
                   syncVars>>

InitGist ==
    /\ TreeIdle
    /\ MergeIdle
    /\ CanvasIdle
    /\ SyncIdle
    /\ PersistIdle
    /\ GestureIdle
    /\ GenerateIdle
    /\ ImportIdle
    /\ ViewIdle
    /\ CallIdle
    /\ SessionIdle
    /\ CallAIIdle
    /\ GistIdle

SpecGist == InitGist /\ [][NextGist]_vars

\* C20: createGist, updateGist and fetchGist, called when no GitHub token is
\* stored, fail with the credential error and send no request.
C20_NoTokenNoRequest ==
    (gistCall.op \in {"createGist", "updateGist", "fetchGist"}
       /\ ~gistCall.hadToken) =>
        /\ gistCall.pc = "thrown"
        /\ gistCall.error = "GitHub token not set"
        /\ gistCall.sent = 0

\* createGist and updateGist do
CreateUpdateNeedToken ==
    (gistCall.op \in {"createGist", "updateGist"} /\ ~gistCall.hadToken) =>
        /\ gistCall.pc = "thrown"
        /\ gistCall.error = "GitHub token not set"
        /\ gistCall.sent = 0
        /\ \A i \in 1..Len(gistRequests) :
               gistRequests[i].method \in {"POST", "PATCH"} =>
                   gistRequests[i].authorization # <<>>

(***************************************************************************)
(* handleAIGenerate as the steps of its invocations (main module:537-661): *)
(* the checks at its entry, the request callAI sends, and the arrival of   *)
(* each response.  A response is merged with the constraints its           *)
(* invocation built when it started; those hold the feature objects of the *)
(* tree of that time.                                                      *)
(***************************************************************************)
MaxAIRequests == 2       \* invocations that reach callAI
MaxGenerateTotal == 8    \* ids generateId hands out in SpecGenerate

\* String.prototype.trim: the spaces at both ends go
RECURSIVE trimStart(_)
trimStart(s) ==
    IF s # <<>> /\ Head(s) = " " THEN trimStart(Tail(s)) ELSE s

RECURSIVE trimEnd(_)
trimEnd(s) ==
    IF s # <<>> /\ s[Len(s)] = " " THEN trimEnd(SubSeq(s, 1, Len(s) - 1)) ELSE s

trim(s) == trimEnd(trimStart(s))

\* a reading of the key check that finds a key for every model
alwaysHasKey(keys, model) == TRUE

\* hasAPIKey(model) (storage.js:176-179)
hasAPIKey(keys, model) == model \in keys

\* what the user may type into the prompt
Prompts == { <<>>, <<" ">>, <<"p", " ">> }

AIModels == { "gemini", "claude" }

GenerateSessionFrame ==
    UNCHANGED <<db, objects, currentProject, clock, stamp, latest, aiTask,
                openTask, sessionOp, writes>>

NoAutoSave == UNCHANGED <<timers, timeout, timerCount, calls, lastCall>>

\* the user types a prompt
TypePrompt(text) ==
    /\ promptInput' = text
    /\ lastOp' = "typePrompt"
    /\ UNCHANGED <<phases, nextId, mergeVars, aiModel, apiKeys, notification,
                   loadingOverlay, aiRequests, inFlight, regenerations,
                   arrivals>>
    /\ GenerateSessionFrame /\ NoAutoSave

\* the model selector changes (main module:522-535)
SelectModel(model) ==
    /\ aiModel' = model
    /\ lastOp' = "selectModel"
    /\ UNCHANGED <<phases, nextId, mergeVars, promptInput, apiKeys,
                   notification, loadingOverlay, aiRequests, inFlight,
                   regenerations, arrivals>>
    /\ GenerateSessionFrame /\ NoAutoSave

\* addAPIKey stores a key for a model (main module:431-476)
AddAPIKey(model) ==
    /\ apiKeys' = apiKeys \cup {model}
    /\ notification' = "API key saved"
    /\ lastOp' = "addAPIKey"
    /\ UNCHANGED <<phases, nextId, mergeVars, promptInput, aiModel,
                   loadingOverlay, aiRequests, inFlight, regenerations,
                   arrivals>>
    /\ GenerateSessionFrame /\ NoAutoSave

\* handleNewProject, when there is no project yet (main module:252-275)
HandleNewProject ==
    /\ currentProject = 0
    /\ currentProject' = 1
    /\ objects' = <<[id |-> 1, rev |-> 0]>>
    /\ db' = [p \in {1} |-> 0]
    /\ latest' = [p \in {1} |-> 0]
    /\ phases' = <<>>
    /\ notification' = "Project created"
    /\ lastOp' = "newProject"
    /\ UNCHANGED <<nextId, mergeVars, promptInput, aiModel, apiKeys,
                   loadingOverlay, aiRequests, inFlight, regenerations,
                   arrivals, clock, stamp, aiTask, openTask, sessionOp,
                   writes>>
    /\ NoAutoSave

\* keep or discard on a feature card, before the first request
MarkFeature(action, featureId) ==
    /\ aiRequests = 0
    /\ HandleFeatureAction(action, featureId)
    /\ UNCHANGED <<mergeVars, generateVars>>
    /\ GenerateSessionFrame /\ NoAutoSave

\* handleAIGenerate up to its first wait for the response (lines 537-597,
\* ai.js:216-262): the three checks, then the overlay, the context and the
\* request; callAI throws before its request for a model other than gemini
HandleAIGenerateStart ==
    /\ UNCHANGED <<phases, nextId, mergeVars, promptInput, aiModel, apiKeys,
                   regenerations, arrivals>>
    /\ GenerateSessionFrame /\ NoAutoSave
    /\ IF currentProject = 0
       THEN /\ notification' = "Create a project first"
            /\ lastOp' = "aiNoProject"
            /\ UNCHANGED <<loadingOverlay, aiRequests, inFlight>>
       ELSE IF trim(promptInput) = <<>>
       THEN /\ notification' = "Enter a prompt"
            /\ lastOp' = "aiNoPrompt"
            /\ UNCHANGED <<loadingOverlay, aiRequests, inFlight>>
       ELSE IF ~hasAPIKey(apiKeys, aiModel)
       THEN /\ notification' = "API key required"
            /\ lastOp' = "aiNoKey"
            /\ UNCHANGED <<loadingOverlay, aiRequests, inFlight>>
       ELSE IF aiModel # "gemini"
       THEN /\ notification' = "AI Error"
            /\ loadingOverlay' = FALSE
            /\ lastOp' = "aiThrown"
            /\ UNCHANGED <<aiRequests, inFlight>>
       ELSE /\ aiRequests < MaxAIRequests
            /\ loadingOverlay' = TRUE
            /\ aiRequests' = aiRequests + 1
            /\ inFlight' = Append(inFlight,
                                  [request |-> aiRequests + 1,
                                   constraints |-> buildAIContext(phases),
                                   epoch |-> regenerations])
            /\ lastOp' = "aiStarted"
            /\ UNCHANGED notification

\* the invocations still waiting, after invocation i has merged its response:
\* those of the same tree hold the same keep items
othersAfterMerge(tasks, i, keepItems) ==
    LET rest == RemoveAt(tasks, i)
    IN  [k \in 1..Len(rest) |->
            IF rest[k].epoch = tasks[i].epoch
            THEN [rest[k] EXCEPT !.constraints.keepItems = keepItems]
            ELSE rest[k]]

\* handleAIGenerate from the arrival of the response of invocation i (lines
\* 598-660)
HandleAIGenerateResume(i, result) ==
    LET task == inFlight[i]
        merged == mergeAIResponse(result.data, task.constraints)
        live == IF task.epoch = regenerations
                THEN withKeepItems(phases, merged.keepItems)
                ELSE phases
        applied == applyAIResponse(live, merged.phases, nextId)
    IN  /\ loadingOverlay' = FALSE
        /\ arrivals' = Append(arrivals, task.request)
        /\ UNCHANGED <<aiModel, apiKeys, aiRequests>>
        /\ GenerateSessionFrame
        /\ IF ~result.success \/ Len(result.data.phases) = 0
           THEN /\ notification' = IF result.success THEN "AI returned an empty plan"
                                   ELSE "AI generation failed"
                /\ lastOp' = "aiRejected"
                /\ inFlight' = RemoveAt(inFlight, i)
                /\ UNCHANGED <<phases, nextId, mergeVars, promptInput,
                               regenerations>>
                /\ NoAutoSave
           ELSE /\ mergeIn' = [aiResponse |-> result.data,
                               constraints |-> task.constraints]
                /\ mergeOut' = [done |-> TRUE, raised |-> merged.raised,
                                phases |-> merged.phases,
                                keepItems |-> merged.keepItems]
                /\ IF merged.raised
                   THEN /\ phases' = live
                        /\ notification' = "AI Error"
                        /\ lastOp' = "aiRaised"
                        /\ inFlight' = othersAfterMerge(inFlight, i,
                                                        merged.keepItems)
                        /\ UNCHANGED <<nextId, promptInput, regenerations>>
                        /\ NoAutoSave
                   ELSE /\ nextId + idsOfPhases(merged.phases) <= MaxGenerateTotal
                        /\ phases' = applied.phases
                        /\ nextId' = nextId + idsOfPhases(merged.phases)
                        /\ regenerations' = regenerations + 1
                        /\ inFlight' = othersAfterMerge(inFlight, i,
                                                        merged.keepItems)
                        /\ IF applied.raised
                           THEN /\ notification' = "AI Error"
                                /\ lastOp' = "aiRaised"
                                /\ UNCHANGED promptInput
                                /\ NoAutoSave
                           ELSE /\ AutoSaveInvoked
                                /\ promptInput' = <<>>
                                /\ notification' = "Plan generated"
                                /\ lastOp' = "aiApplied"

\* phase 'b' with feature 'L', as the handlers build them
generateProject ==
    addFeature(addPhase(<<>>, 1, <<"b">>, ""), 1, 2, <<"L">>, "")

\* at launch there is no project, or the last project is open
InitGenerate ==
    /\ \/ /\ currentProject = 0
          /\ objects = <<>>
          /\ db = <<>>
          /\ latest = <<>>
          /\ phases = <<>>
          /\ nextId = 0
       \/ /\ currentProject = 1
          /\ objects = <<[id |-> 1, rev |-> 0]>>
          /\ db = [p \in {1} |-> 0]
          /\ latest = [p \in {1} |-> 0]
          /\ phases = generateProject
          /\ nextId = 2
    /\ lastOp = "init"
    /\ timers = {}
    /\ timeout = 0
    /\ timerCount = 0
    /\ clock = 0
    /\ stamp = 0
    /\ aiTask = [pc |-> "idle", project |-> 0]
    /\ openTask = [pc |-> "idle", id |-> 0]
    /\ sessionOp = [op |-> "init", project |-> 1, current |-> 1, n |-> 0]
    /\ calls = 0
    /\ lastCall = 0
    /\ writes = 0
    /\ MergeIdle
    /\ CanvasIdle
    /\ SyncIdle
    /\ PersistIdle
    /\ GestureIdle
    /\ GenerateIdle
    /\ GistIdle
    /\ CallAIIdle
    /\ CallIdle
    /\ ViewIdle
    /\ ImportIdle

NextGenerate ==
    /\ \/ \E text \in Prompts : TypePrompt(text)
       \/ \E model \in AIModels : SelectModel(model)
       \/ \E model \in AIModels : AddAPIKey(model)
       \/ HandleNewProject
       \/ \E id \in featureIds(phases), action \in {"keep", "discard"} :
              MarkFeature(action, id)
       \/ HandleAIGenerateStart
       \/ \E i \in 1..Len(inFlight), result \in AIResults :
              HandleAIGenerateResume(i, result)
    /\ UNCHANGED <<canvasVars, importVars, viewVars, callVars, callAIVars,
                   gistVars,
                   gestureVars,
                   persistVars,
                   syncVars>>

SpecGenerate == InitGenerate /\ [][NextGenerate]_vars

\* the steps in which handleAIGenerate returned at one of its three checks
refusals == { "aiNoProject", "aiNoPrompt", "aiNoKey" }

\* the steps of HandleAIGenerateStart
startOutcomes == refusals \cup { "aiThrown", "aiStarted" }

\* C21: handleAIGenerate invoked with no current project, with a prompt that
\* is empty or only spaces, or with no key stored for the selected model
\* sends no AI request, leaves the project, the pending autosave and the
\* loading overlay as they were, and only shows a notice.
C21_RefusedGenerateOnlyNotifies ==
    [][(/\ lastOp' \in startOutcomes
        /\ lastOp' # lastOp
        /\ \/ currentProject = 0
           \/ trim(promptInput) = <<>>
           \/ aiModel \notin apiKeys)
       => /\ lastOp' \in refusals
          /\ notification' \in { "Create a project first", "Enter a prompt",
                                 "API key required" }
          /\ aiRequests' = aiRequests
          /\ inFlight' = inFlight
          /\ phases' = phases
          /\ nextId' = nextId
          /\ timers' = timers
          /\ calls' = calls
          /\ loadingOverlay' = loadingOverlay
          /\ promptInput' = promptInput]_vars

\* a refusal for a missing key, with a project open and a prompt typed,
\* while an earlier invocation is still waiting
C21_Witness ==
    /\ lastOp = "aiNoKey"
    /\ currentProject = 1
    /\ trim(promptInput) # <<>>
    /\ loadingOverlay
    /\ Len(inFlight) = 1

\* the features of a tree
treeFeatures(ps) ==
    { ps[at[1]].features[at[2]] : at \in Range(featurePaths(ps)) }

\* C25: nothing keeps a second handleAIGenerate from starting while the
\* first awaits its response, and each response that is applied replaces the
\* phases when it arrives: after it the phases are the ones built from that
\* response, with new ids, whatever request it answers, and the only
\* features from before are the kept ones.
C25_ArrivingResponseReplacesPhases ==
    [][(lastOp' = "aiApplied" /\ regenerations' = regenerations + 1) =>
        /\ Len(phases') = Len(mergeIn'.aiResponse.phases)
        /\ \A i \in 1..Len(phases') :
              /\ phases'[i].name = mergeIn'.aiResponse.phases[i].name
              /\ phases'[i].id > nextId
              /\ phases'[i].order = i - 1
        /\ \A g \in treeFeatures(phases') :
              \/ g.id > nextId
              \/ \E f \in treeFeatures(phases) :
                    f.id = g.id /\ f.marked_as = "keep"]_vars

\* two invocations were waiting at once, the response to the second request
\* arrived first, and the phases are those of the response to the first
C25_Witness ==
    /\ arrivals = <<2, 1>>
    /\ regenerations = 2
    /\ lastOp = "aiApplied"
    /\ Len(phases) = 1
    /\ phases[1].name = <<"x">>
    /\ \E g \in treeFeatures(phases) : g.marked_as = "keep"

\* two invocations wait for their responses at once
TwoInFlight == Len(inFlight) = 2

(***************************************************************************)
(* The asynchronous entry points of the user's gestures and the external   *)
(* calls they await (main module).  For each call: what the catch that     *)
(* receives its failure does - "notify" when a catch of the handler or of  *)
(* its callee shows a notification, "log" when the handler's catch only    *)
(* writes to the console, "none" when the call is awaited outside every    *)
(* try - and whether the handler may return on the call's result.          *)
(***************************************************************************)
MaxGestures == 2    \* gestures in one run

awaited(call, catch, mayReturn) ==
    [call |-> call, catch |-> catch, mayReturn |-> mayReturn]

\* openProject (lines 217-250): both calls inside its own try
openProjectCalls ==
    << awaited("getProject", "notify", TRUE),
       awaited("setSetting", "notify", FALSE) >>

handlerCalls(h) ==
    CASE h = "handleNewProject" ->      \* lines 252-275
           << awaited("createProject", "notify", FALSE),
              awaited("getAllProjects", "notify", FALSE) >> \o openProjectCalls
      [] h = "handleProjectChange" ->   \* lines 277-282
           openProjectCalls
      [] h = "forceSave" ->             \* lines 284-294
           << awaited("updateProject", "notify", FALSE) >>
      [] h = "handleImportFile" ->      \* lines 326-342
           << awaited("importProject", "notify", FALSE),
              awaited("getAllProjects", "notify", FALSE) >> \o openProjectCalls
      [] h = "handleSyncGist" ->        \* lines 343-380, gist.js:171-205
           << awaited("hasGithubToken", "none", TRUE),
              awaited("syncToGist", "notify", FALSE),
              awaited("updateProject", "log", FALSE) >>
      [] h = "handleModelChange" ->     \* lines 522-535, ai.js:350-373
           << awaited("hasAPIKey", "none", TRUE),
              awaited("updateProject", "none", FALSE) >>
      [] h = "addAPIKey" ->             \* lines 431-476
           << awaited("validateAPIKey", "notify", TRUE),
              awaited("saveAPIKey", "notify", FALSE),
              awaited("hasAPIKey", "notify", FALSE) >>
      [] h = "addGithubToken" ->        \* lines 478-509
           << awaited("validateGithubToken", "notify", TRUE),
              awaited("saveGithubToken", "notify", FALSE),
              awaited("hasAPIKey", "notify", FALSE) >>
      [] h = "handleAIGenerate" ->      \* lines 537-661
           << awaited("hasAPIKey", "none", TRUE),
              awaited("callAI", "notify", FALSE) >>

GestureHandlers ==
    { "handleNewProject", "handleProjectChange", "forceSave",
      "handleImportFile", "handleSyncGist", "handleModelChange", "addAPIKey",
      "addGithubToken", "handleAIGenerate" }

\* the handlers every await of which is inside a try
GuardedHandlers ==
    { h \in GestureHandlers :
        \A k \in 1..Len(handlerCalls(h)) : handlerCalls(h)[k].catch # "none" }

\* a gesture starts handler h, which runs to its first external call
GestureStarts(h) ==
    /\ gesture.outcome # "running"
    /\ gestureCount < MaxGestures
    /\ gesture' = [handler |-> h, pc |-> 1, outcome |-> "running"]
    /\ gestureCount' = gestureCount + 1
    /\ UNCHANGED <<rejections, notification>>

\* the awaited call resolves: the handler goes on to its next call, or
\* returns
CallResolves(goesOn) ==
    /\ gesture.outcome = "running"
    /\ goesOn \/ handlerCalls(gesture.handler)[gesture.pc].mayReturn
               \/ gesture.pc = Len(handlerCalls(gesture.handler))
    /\ gesture' = IF goesOn /\ gesture.pc < Len(handlerCalls(gesture.handler))
                  THEN [gesture EXCEPT !.pc = @ + 1]
                  ELSE [gesture EXCEPT !.outcome = "returned"]
    /\ notification' = IF goesOn /\ gesture.pc < Len(handlerCalls(gesture.handler))
                       THEN notification
                       ELSE "done"
    /\ UNCHANGED <<gestureCount, rejections>>

\* the awaited call rejects
CallRejects ==
    LET c == handlerCalls(gesture.handler)[gesture.pc]
    IN  /\ gesture.outcome = "running"
        /\ gesture' = [gesture EXCEPT !.outcome =
                          CASE c.catch = "notify" -> "notified"
                            [] c.catch = "log" -> "logged"
                            [] c.catch = "none" -> "unhandled"]
        /\ notification' = IF c.catch = "notify" THEN "error" ELSE notification
        /\ rejections' = IF c.catch = "none"
                         THEN rejections \cup {<<gesture.handler, c.call>>}
                         ELSE rejections
        /\ UNCHANGED gestureCount

InitGestures ==
    /\ TreeIdle
    /\ MergeIdle
    /\ CanvasIdle
    /\ SyncIdle
    /\ PersistIdle
    /\ GestureIdle
    /\ GenerateIdle
    /\ GistIdle
    /\ CallAIIdle
    /\ SessionIdle
    /\ CallIdle
    /\ ViewIdle
    /\ ImportIdle

NextGestures ==
    /\ \/ \E h \in GestureHandlers : GestureStarts(h)
       \/ \E goesOn \in BOOLEAN : CallResolves(goesOn)
       \/ CallRejects
    /\ UNCHANGED <<treeVars, mergeVars, canvasVars, importVars, viewVars,
                   callVars, sessionVars, callAIVars, gistVars, promptInput,
                   aiModel, apiKeys, loadingOverlay, aiRequests, inFlight,
                   regenerations, arrivals, persistVars,
                   syncVars>>

SpecGestures == InitGestures /\ [][NextGestures]_vars

\* C22: in each of the nine entry points, a failure of an external call is
\* caught and shown as a notification; none leaves the handler as an
\* unhandled rejection.
C22_FailuresBecomeNotifications ==
    [][gesture'.outcome \notin {"running", "returned"} /\ gesture' # gesture =>
         /\ gesture'.outcome = "notified"
         /\ notification' = "error"
         /\ rejections' = rejections]_vars

\* it holds of the handlers that await nothing outside a try, but for the
\* last call of handleSyncGist
GuardedHandlersNotify ==
    [][(/\ gesture'.outcome \notin {"running", "returned"}
        /\ gesture' # gesture
        /\ gesture.handler \in GuardedHandlers
        /\ <<gesture.handler, gesture.pc>> # <<"handleSyncGist", 3>>) =>
         /\ gesture'.outcome = "notified"
         /\ notification' = "error"
         /\ rejections' = rejections]_vars

\* every id of a tree, phase ids first, then feature ids, then subtask ids
allIds(ps) ==
    LET fs == Flatten([i \in 1..Len(ps) |-> ps[i].features])
    IN  [i \in 1..Len(ps) |-> ps[i].id]
        \o [k \in 1..Len(fs) |-> fs[k].id]
        \o Flatten([k \in 1..Len(fs) |->
                        [m \in 1..Len(fs[k].subtasks) |-> fs[k].subtasks[m].id]])

pairwiseDistinct(s) == \A i, j \in 1..Len(s) : s[i] = s[j] => i = j

\* C23: the ids of the phases, features and subtasks of the current project
\* are pairwise distinct in every reachable state.
C23_IdsPairwiseDistinct == pairwiseDistinct(allIds(phases))

\* it holds of the regenerations whose kept features have different names
IdsDistinctForDistinctKeptNames ==
    [][(lastOp' = "aiApplied" /\ pairwiseDistinct(allIds(phases))
            /\ DistinctKeptNames) =>
          pairwiseDistinct(allIds(phases'))]_vars

\* and of the tree importProject returns
ImportedIdsDistinct ==
    (importOut.done /\ importOut.ok) =>
        pairwiseDistinct(<<importOut.project.id>>
                         \o allIds(importOut.project.phases))

\* the phase a call of addPhase appended
appended == phases'[Len(phases')]

addPhaseCalled == lastOp' = "addPhase" /\ Len(phases') = Len(phases) + 1

\* C24: addPhase appends a phase whose order is the number of phases there
\* were, at x = order*320+40, y = 100, and that is strictly to the right of
\* the last phase there was, after any addPhase and deletePhase calls.
C24_NewPhaseRightOfLast ==
    [][addPhaseCalled =>
        /\ appended.order = Len(phases)
        /\ appended.position = [x |-> appended.order * 320 + 40, y |-> 100]
        /\ Len(phases) > 0 =>
              appended.position.x > phases[Len(phases)].position.x]_vars

\* the order and the position are as stated
NewPhaseOrderAndPosition ==
    [][addPhaseCalled =>
        /\ appended.order = Len(phases)
        /\ appended.position = [x |-> appended.order * 320 + 40, y |-> 100]]_vars

\* C26: a whole-project regeneration keeps, in the new tree, every feature
\* of the old tree that was added by hand (ai_generated false) and is not
\* marked discard.
C26_ManualFeaturesPreserved ==
    [][(lastOp' = "aiApplied" /\ nextId' > nextId) =>
        \A f \in treeFeatures(phases) :
            (~f.ai_generated /\ f.marked_as # "discard") =>
                \E g \in treeFeatures(phases') : g.id = f.id]_vars

\* what a regeneration leaves of the old tree are features marked keep
OnlyKeptFeaturesSurvive ==
    [][(lastOp' = "aiApplied" /\ nextId' > nextId) =>
        \A g \in treeFeatures(phases') :
            g.id <= nextId =>
                \E f \in treeFeatures(phases) :
                    f.id = g.id /\ f.marked_as = "keep"]_vars

\* the features of a tree, in tree order
featureList(ps) == Flatten([i \in 1..Len(ps) |-> ps[i].features])

\* no two features of the tree have the same name, whatever the case
uniqueNames(ps) ==
    \A i, j \in 1..Len(featureList(ps)) :
        SameName(featureList(ps)[i], featureList(ps)[j]) => i = j

\* how many features of the tree have the name of k, whatever the case
named(ps, k) ==
    Cardinality({ i \in 1..Len(featureList(ps)) : SameName(featureList(ps)[i], k) })

\* C27: after a successful whole-project generation in which feature K was
\* marked keep and the feature names were unique, exactly one feature of the
\* new tree has K's name, whatever the case of the letters and whether or
\* not the response had a feature with that name.
C27_KeptNameOccursOnce ==
    [][(lastOp' = "aiApplied" /\ regenerations' = regenerations + 1
            /\ uniqueNames(phases)) =>
        \A k \in treeFeatures(phases) :
            k.marked_as = "keep" => named(phases', k) = 1]_vars

\* the kept feature is in the new tree at least once
KeptNameOccurs ==
    [][(lastOp' = "aiApplied" /\ regenerations' = regenerations + 1
            /\ uniqueNames(phases)) =>
        \A k \in treeFeatures(phases) :
            k.marked_as = "keep" => named(phases', k) >= 1]_vars

(***************************************************************************)
(* SpecBackRefs: the handlers of the hierarchy together with the           *)
(* whole-project regeneration and the import of a project file, which      *)
(* becomes the current project (main module:326-342).                      *)
(***************************************************************************)
MaxBackRefId == 5   \* ids generateId hands out in SpecBackRefs

\* the project file the user may import: a phase with a feature, with up
\* to one subtask, that depends on itself and on a feature not in the file
backRefTree(n) ==
    LET p == addFeature(addPhase(<<>>, 1, <<"b">>, <<>>), 1, 2, <<"L">>, <<>>)
        t == IF n = 0 THEN p ELSE addSubtask(p, 1, 1, 3, <<"t">>)
    IN  [t EXCEPT ![1].features[1].dependencies = <<2, 9>>]

BackRefFiles ==
    { exportProject([createProject(10, <<"P">>, <<"g">>, 0) EXCEPT
                        !.phases = backRefTree(n)], 1) :
        n \in 0..1 }

\* importProject on each file, for each number of ids handed out before
importedFile ==
    [text \in BackRefFiles, base \in 0..MaxBackRefId |->
        importProject(text, base, 2)]

\* handleImportFile: the file is imported and the project it holds is opened
HandleImportFile(text) ==
    LET result == importedFile[text, nextId]
        ids == 1 + SumSeq([i \in 1..Len(result.project.phases) |->
                              idsOfTree(result.project.phases[i])])
    IN  /\ result.ok
        /\ nextId + ids <= MaxBackRefId
        /\ phases' = result.project.phases
        /\ nextId' = nextId + ids
        /\ lastOp' = "import"

\* a whole-project regeneration with kept features, from a plan with phases
RegenerateWithKept(result) ==
    /\ markedPaths(phases, "keep") # <<>>
    /\ result.success
    /\ result.data.phases # <<>>
    /\ HandleAIGenerate(result, MaxBackRefId)

NextBackRefs ==
    /\ \/ AddNewPhase(<<"b">>, MaxBackRefId)
       \/ \E id \in phaseIds(phases) : AddNewFeature(id, <<"L">>, MaxBackRefId)
       \/ \E id \in featureIds(phases) : AddNewSubtask(id, <<"t">>, MaxBackRefId)
       \/ \E id \in featureIds(phases), target \in phaseIds(phases) :
              HandleDrop(id, target)
       \/ \E id \in featureIds(phases) : HandleFeatureAction("keep", id)
       \/ \E result \in AIResults : RegenerateWithKept(result)
       \/ \E text \in BackRefFiles : HandleImportFile(text)
    /\ UNCHANGED <<mergeVars, canvasVars, importVars, viewVars, callVars,
                   sessionVars, callAIVars, gistVars, generateVars,
                   gestureVars,
                   persistVars,
                   syncVars>>

SpecBackRefs == Init /\ [][NextBackRefs]_vars

THROTTLE_LIMIT == 500
TickMs == 250           \* the time one step of the clock takes
MaxViewTime == 1250     \* the clock stops here

\* if (!inThrottle) of throttle (canvas.js:1122)
throttled(blocked) == blocked

\* getCanvasState of the transform c
canvasStateOf(c) ==
    [zoom_level |-> c.scale, pan_x |-> c.translateX, pan_y |-> c.translateY]

NoSave ==
    UNCHANGED <<canvasState, inThrottle, throttleDue, timers, timeout,
                timerCount, calls, lastCall>>

\* saveCanvasState(), called at the end of a handler that leaves the primed
\* transform: the throttled function runs if the throttle is open, and the
\* throttle closes for THROTTLE_LIMIT ms
SaveCanvasState ==
    IF throttled(inThrottle)
    THEN NoSave
    ELSE /\ inThrottle' = TRUE
         /\ throttleDue' = viewClock + THROTTLE_LIMIT
         /\ IF currentProject # 0
            THEN /\ canvasState' = canvasStateOf([scale |-> scale',
                                                  translateX |-> translateX',
                                                  translateY |-> translateY'])
                 /\ AutoSaveInvoked
            ELSE UNCHANGED <<canvasState, timers, timeout, timerCount, calls,
                             lastCall>>

\* what a canvas event leaves alone
ViewEvent ==
    /\ lastEvent' = viewClock
    /\ UNCHANGED <<viewClock, db, objects, currentProject, clock, stamp, latest,
                   aiTask, openTask, sessionOp, writes>>

MouseFrame == UNCHANGED <<isPanning, startX, startY>>

\* zoomAtPoint saves when the scale changed (lines 114-123)
zoomSaves(c, delta) ==
    LET newScale == clamp(NumAdd(c.scale, delta))
    IN  newScale # c.scale \/ IsNaN(newScale)

\* handleWheel (lines 84-99)
ViewWheel(e) ==
    /\ HandleWheel(e)
    /\ IF e.ctrlKey /\ ~zoomSaves(transform, NumMul(Int2Num(-e.deltaY), Ratio(1, 100)))
       THEN NoSave
       ELSE SaveCanvasState
    /\ ViewEvent /\ MouseFrame /\ UNCHANGED touching

\* zoomIn and zoomOut (lines 285-293)
ViewZoomButton(step) ==
    /\ ZoomButton(step)
    /\ IF zoomSaves(transform, step) THEN SaveCanvasState ELSE NoSave
    /\ ViewEvent /\ MouseFrame /\ UNCHANGED touching

\* resetZoom (lines 295-302)
ViewResetZoom ==
    /\ ResetZoom
    /\ SaveCanvasState
    /\ ViewEvent /\ MouseFrame /\ UNCHANGED touching

\* handleMouseDown on the canvas (lines 126-135)
HandleMouseDown(clientX, clientY) ==
    /\ CanvasStep("mouseDown", transform, Int2Num(0), Int2Num(0))
    /\ isPanning' = TRUE
    /\ startX' = NumSub(Int2Num(clientX), translateX)
    /\ startY' = NumSub(Int2Num(clientY), translateY)
    /\ UNCHANGED <<touchStartDistance, touchStartScale, lastTouchX, lastTouchY,
                   touching>>
    /\ NoSave
    /\ ViewEvent

\* handleMouseMove while panning (lines 139-144)
HandleMouseMove(clientX, clientY) ==
    /\ isPanning
    /\ CanvasStep("pan",
                  [transform EXCEPT
                      !.translateX = NumSub(Int2Num(clientX), startX),
                      !.translateY = NumSub(Int2Num(clientY), startY)],
                  Int2Num(0), Int2Num(0))
    /\ UNCHANGED <<touchStartDistance, touchStartScale, lastTouchX, lastTouchY,
                   touching>>
    /\ NoSave
    /\ ViewEvent /\ MouseFrame

\* handleMouseUp while panning (lines 158-163)
HandleMouseUp ==
    /\ isPanning
    /\ CanvasStep("mouseUp", transform, Int2Num(0), Int2Num(0))
    /\ isPanning' = FALSE
    /\ SaveCanvasState
    /\ UNCHANGED <<touchStartDistance, touchStartScale, lastTouchX, lastTouchY,
                   touching, startX, startY>>
    /\ ViewEvent

\* handleTouchStart (lines 182-193)
ViewTouchStart(touches) ==
    /\ HandleTouchStart(touches)
    /\ touching' = TRUE
    /\ NoSave
    /\ ViewEvent /\ MouseFrame

\* handleTouchMove (lines 195-230), the fingers being on the canvas
ViewTouchMove(touches) ==
    /\ touching
    /\ HandleTouchMove(touches)
    /\ NoSave
    /\ ViewEvent /\ MouseFrame /\ UNCHANGED touching

\* handleTouchEnd (lines 232-234)
HandleTouchEnd ==
    /\ touching
    /\ CanvasStep("touchEnd", transform, Int2Num(0), Int2Num(0))
    /\ touching' = FALSE
    /\ SaveCanvasState
    /\ UNCHANGED <<touchStartDistance, touchStartScale, lastTouchX, lastTouchY>>
    /\ ViewEvent /\ MouseFrame

\* the timer of the throttle fires (canvas.js:1125)
ThrottleExpires ==
    /\ inThrottle
    /\ throttleDue <= viewClock
    /\ inThrottle' = FALSE
    /\ UNCHANGED <<canvasVars, sessionVars, canvasState, throttleDue, viewClock,
                   lastEvent, isPanning, startX, startY, touching>>

\* time passes; the throttle's timer is not overdue
ViewTick ==
    /\ viewClock < MaxViewTime
    /\ inThrottle => viewClock < throttleDue
    /\ viewClock' = viewClock + TickMs
    /\ UNCHANGED <<canvasVars, sessionVars, canvasState, inThrottle,
                   throttleDue, lastEvent, isPanning, startX, startY, touching>>

\* the events of SpecView
ViewWheelEvents ==
    { e \in WheelEvents : e.deltaY \in {-100, -20} /\ e.clientX = 10 }

ViewTouches == { << touch(10, 20), touch(40, 60) >>, << touch(50, 50) >> }

InitView ==
    /\ TreeIdle
    /\ MergeIdle
    /\ CanvasIdle
    /\ SyncIdle
    /\ PersistIdle
    /\ GestureIdle
    /\ GenerateIdle
    /\ GistIdle
    /\ CallAIIdle
    /\ SessionIdle
    /\ CallIdle
    /\ ViewIdle
    /\ ImportIdle

NextView ==
    /\ \/ \E e \in ViewWheelEvents : ViewWheel(e)
       \/ ViewZoomButton(ZOOM_STEP)
       \/ ViewZoomButton(NumNeg(ZOOM_STEP))
       \/ ViewResetZoom
       \/ \E at \in { <<10, 20>>, <<50, 30>> } : HandleMouseDown(at[1], at[2])
       \/ \E at \in { <<10, 20>>, <<50, 30>> } : HandleMouseMove(at[1], at[2])
       \/ HandleMouseUp
       \/ \E touches \in ViewTouches : ViewTouchStart(touches)
       \/ \E touches \in ViewTouches : ViewTouchMove(touches)
       \/ HandleTouchEnd
       \/ ThrottleExpires
       \/ ViewTick
    /\ UNCHANGED <<treeVars, mergeVars, importVars, viewVars, callVars,
                   callAIVars, gistVars, generateVars, gestureVars,
                   syncVars>>

SpecView == InitView /\ [][NextView]_vars

\* no event for longer than the throttle interval, and no gesture under way
quiescent ==
    /\ canvasSteps > 0
    /\ viewClock - lastEvent > THROTTLE_LIMIT
    /\ ~isPanning
    /\ ~touching

\* C29: after pan and zoom events followed by more than 500 ms without one,
\* the canvas_state of the current project is the scale and the translation
\* of the canvas.
C29_QuiescentViewIsStored ==
    quiescent => canvasState = canvasStateOf(transform)

\* a call of saveCanvasState that finds the throttle open stores the view
StoredWhenThrottleOpen ==
    [][(~inThrottle /\ inThrottle') =>
          canvasState' = canvasStateOf([scale |-> scale',
                                        translateX |-> translateX',
                                        translateY |-> translateY'])]_vars

(***************************************************************************)
(* handleSyncGist as the steps of its invocations (main module:343-380,    *)
(* gist.js:171-205): the checks, the request syncToGist sends for the      *)
(* project as it is then, and the arrival of each response.                *)
(***************************************************************************)
MaxSyncs == 3   \* invocations of handleSyncGist that reach syncToGist

SyncFrame ==
    UNCHANGED <<treeVars, mergeVars, canvasVars, importVars, viewVars,
                callVars, callAIVars, gistCall, generateVars, gestureVars,
                persistVars>>

SyncSessionFrame ==
    UNCHANGED <<db, objects, currentProject, timers, timeout, timerCount,
                clock, stamp, latest, aiTask, openTask, sessionOp, calls,
                lastCall>>

\* the token is saved in Settings (main module:478-509)
AddGithubToken(token) ==
    /\ githubToken' = btoa(token)
    /\ syncOp' = [op |-> "token", ok |-> TRUE]
    /\ UNCHANGED <<gistRequests, projectGist, syncsInFlight, remoteGists,
                   syncStamp, writes>>
    /\ SyncFrame /\ SyncSessionFrame

\* handleSyncGist up to await syncToGist (lines 343-365), and syncToGist up
\* to the fetch of createGist or updateGist (gist.js:171-181, 32-64, 81-116)
HandleSyncGistStart ==
    /\ currentProject # 0
    /\ IF githubToken = <<>>
       THEN /\ syncOp' = [op |-> "noToken", ok |-> FALSE]
            /\ UNCHANGED <<gistRequests, syncsInFlight>>
       ELSE /\ Len(gistRequests) < MaxSyncs
            /\ LET method == IF projectGist.gist_id # 0 THEN "PATCH" ELSE "POST"
               IN  /\ gistRequests' =
                          Append(gistRequests,
                                 [method |-> method,
                                  authorization |-> getDecodedToken(githubToken),
                                  gist_id |-> projectGist.gist_id])
                   /\ syncsInFlight' = Append(syncsInFlight, method)
                   /\ syncOp' = [op |-> method, ok |-> TRUE]
    /\ UNCHANGED <<githubToken, projectGist, remoteGists, syncStamp, writes>>
    /\ SyncFrame /\ SyncSessionFrame

\* the response to request i arrives: syncToGist returns or throws, and
\* handleSyncGist goes on (lines 366-379)
HandleSyncGistResume(i, ok) ==
    /\ i \in 1..Len(syncsInFlight)
    /\ syncsInFlight' = RemoveAt(syncsInFlight, i)
    /\ syncStamp' = syncStamp + 1
    /\ syncOp' = [op |-> "response", ok |-> ok]
    /\ IF ~ok
       THEN UNCHANGED <<projectGist, remoteGists, writes>>
       ELSE /\ writes' = writes + 1
            /\ IF syncsInFlight[i] = "POST"
               THEN /\ remoteGists' = remoteGists + 1
                    /\ projectGist' = [gist_id |-> remoteGists + 1,
                                       gist_url |-> remoteGists + 1,
                                       last_synced |-> syncStamp + 1]
               ELSE /\ projectGist' = [projectGist EXCEPT
                                          !.last_synced = syncStamp + 1]
                    /\ UNCHANGED remoteGists
    /\ UNCHANGED <<githubToken, gistRequests>>
    /\ SyncFrame /\ SyncSessionFrame

InitSync ==
    /\ TreeIdle
    /\ MergeIdle
    /\ CanvasIdle
    /\ SyncIdle
    /\ PersistIdle
    /\ GestureIdle
    /\ GenerateIdle
    /\ ImportIdle
    /\ ViewIdle
    /\ CallIdle
    /\ SessionIdle
    /\ CallAIIdle
    /\ GistIdle

NextSync ==
    \/ \E token \in { <<"t">>, <<"u">> } : AddGithubToken(token)
    \/ HandleSyncGistStart
    \/ \E i \in 1..Len(syncsInFlight), ok \in BOOLEAN : HandleSyncGistResume(i, ok)

SpecSync == InitSync /\ [][NextSync]_vars

\* C30: for one project a gist is created at most once; once a sync has
\* recorded gist_id, every later handleSyncGist sends a PATCH for that
\* gist_id and gist_id does not change again, whatever the interleaving; a
\* failed sync leaves gist_id, gist_url and last_synced as they were.
C30_GistCreatedOnce ==
    [][/\ remoteGists' <= 1
       /\ projectGist.gist_id # 0 =>
             /\ projectGist'.gist_id = projectGist.gist_id
             /\ Len(gistRequests') > Len(gistRequests) =>
                   /\ gistRequests'[Len(gistRequests')].method = "PATCH"
                   /\ gistRequests'[Len(gistRequests')].gist_id = projectGist.gist_id
       /\ (syncOp'.op = "response" /\ ~syncOp'.ok /\ syncStamp' # syncStamp) =>
             projectGist' = projectGist]_vars

\* it holds of the syncs that start when no other sync is waiting
GistCreatedOnceWhenNotOverlapping ==
    [][/\ (syncsInFlight = <<>> /\ Len(gistRequests') > Len(gistRequests)
              /\ projectGist.gist_id # 0) =>
             /\ gistRequests'[Len(gistRequests')].method = "PATCH"
             /\ gistRequests'[Len(gistRequests')].gist_id = projectGist.gist_id
       /\ (syncOp'.op = "response" /\ syncStamp' # syncStamp
              /\ projectGist'.gist_id # projectGist.gist_id) =>
             /\ syncOp'.ok
             /\ syncsInFlight[CHOOSE i \in 1..Len(syncsInFlight) :
                                  syncsInFlight' = RemoveAt(syncsInFlight, i)] = "POST"
       /\ (syncOp'.op = "response" /\ ~syncOp'.ok /\ syncStamp' # syncStamp) =>
             projectGist' = projectGist]_vars

====
